---------------------------- MODULE Spec2Model ----------------------------
(***************************************************************************)
(* A model of ovpn-admin (src/main.go): the slave's replication cycle, the *)
(* HTTP handlers of a node, the registry (index.txt) parser and renderer,  *)
(* the management-interface status parser and the CCD policy engine.       *)
(*                                                                         *)
(* Text is modelled as a sequence of atoms (one-character strings, or a    *)
(* longer string for a run of characters the code never looks inside).     *)
(* A file is a record [exists, data].                                      *)
(***************************************************************************)
EXTENDS Integers, Sequences, FiniteSets, TLC

VARIABLES
    role,                    \* OpenvpnAdmin.role
    masterSyncToken,         \* OpenvpnAdmin.masterSyncToken
    openvpnNetwork,          \* *openvpnNetwork (flag ovpn.network)
    now,                     \* the wall clock, in seconds
    lastSyncTime,            \* OpenvpnAdmin.lastSyncTime
    lastSuccessfulSyncTime,  \* OpenvpnAdmin.lastSuccessfulSyncTime
    clients,                 \* OpenvpnAdmin.clients
    activeClients,           \* OpenvpnAdmin.activeClients
    indexTxt,                \* the file at *indexTxtPath
    ccdDir,                  \* the files of *ccdDir, by user name
    certsArchive,            \* the file at certsArchivePath
    ccdArchive,              \* the file at ccdArchivePath
    pc,                      \* position of the running task
    certsDownloadFailed,     \* locals of syncDataFromMaster
    ccdDownloadFailed,
    certsDownloadRetries,
    ccdDownloadRetries,
    resp,                    \* the last HTTP response written
    hist,                    \* history of the current operation
    arg,                     \* input of the function under study
    ret                      \* its result

vars == <<role, masterSyncToken, openvpnNetwork, now, lastSyncTime,
          lastSuccessfulSyncTime, clients, activeClients, indexTxt, ccdDir,
          certsArchive, ccdArchive, pc, certsDownloadFailed, ccdDownloadFailed,
          certsDownloadRetries, ccdDownloadRetries, resp, hist, arg, ret>>

nodeVars == <<role, masterSyncToken, openvpnNetwork>>

syncLocals == <<certsDownloadFailed, ccdDownloadFailed, certsDownloadRetries,
                ccdDownloadRetries>>

-----------------------------------------------------------------------------
(* Bounds of the model *)

MaxCycles == 2

-----------------------------------------------------------------------------
(* Program constants *)

retryCountMax == 3

masterSyncFrequency == 600

stringDateFormat == "2006-01-02 15:04:05"

certsArchiveFileName == "certs.tar.gz"

ccdArchiveFileName == "ccd.tar.gz"

indexTxtDateLayout == "060102150405Z"

-----------------------------------------------------------------------------
(* Files and text *)

NoFile == [exists |-> FALSE, data |-> <<>>]

File(data) == [exists |-> TRUE, data |-> data]

\* time.Now().Format(stringDateFormat): the text is fixed by the second
FormatNow(t) == [layout |-> stringDateFormat, sec |-> t]

unknown == [layout |-> "unknown", sec |-> 0]

RECURSIVE Concat(_)
Concat(ss) == IF ss = <<>> THEN <<>> ELSE Head(ss) \o Concat(Tail(ss))

\* the 0-based position of the first c in s at or after position k, -1 when absent
RECURSIVE IndexFrom(_, _, _)
IndexFrom(s, c, k) ==
    IF k >= Len(s) THEN -1 ELSE IF s[k + 1] = c THEN k ELSE IndexFrom(s, c, k + 1)

\* strings.Index for a one-character separator: 0-based, -1 when absent
Index(s, c) == IndexFrom(s, c, 0)

\* the pieces of s from position k on
RECURSIVE SplitFrom(_, _, _)
SplitFrom(s, c, k) ==
    LET i == IndexFrom(s, c, k) IN
    IF i = -1 THEN <<SubSeq(s, k + 1, Len(s))>>
    ELSE <<SubSeq(s, k + 1, i)>> \o SplitFrom(s, c, i + 1)

\* strings.Split(s, c): the pieces between the separators, empty ones kept
Split(s, c) == SplitFrom(s, c, 0)

\* s[i] of Go for a slice of strings, 0-based; out of range panics
InRange(s, i) == i >= 0 /\ i < Len(s)

At(s, i) == s[i + 1]


Tab == "\t"

Nl == "\n"

Sp == " "

\* a well-formed Valid line of index.txt, as the PKI tool writes it
VLine(exp, serial, file, name) ==
    <<"V", Tab, exp, Tab, Tab, serial, Tab, file, Tab, "/CN", "=">> \o name \o <<Nl>>

\* a well-formed Revoked line of index.txt
RLine(exp, rev, serial, file, name) ==
    <<"R", Tab, exp, Tab, rev, Tab, serial, Tab, file, Tab, "/CN", "=">> \o name \o <<Nl>>

alice == <<"a", "l", "i", "c", "e">>

bob == <<"b", "o", "b">>

server == <<"s", "e", "r", "v", "e", "r">>

-----------------------------------------------------------------------------
(* Replication client of a slave: syncDataFromMaster, syncWithMaster *)

\* what the master can hold when a download reaches it
MasterIndexTxts ==
    { VLine("250101000000Z", "01", "unknown", server),
      VLine("250101000000Z", "01", "unknown", server)
        \o RLine("260101000000Z", "240101000000Z", "02", "unknown", alice) }

MasterCcdLine == <<"p", "u", "s", "h">>

SyncUsers == {alice, bob}

MasterCcdDirs == [SyncUsers -> {NoFile, File(<<MasterCcdLine>>)}]

SlaveIndexTxts == {NoFile, File(VLine("250101000000Z", "01", "unknown", server))}

SlaveCcdDirs == [SyncUsers -> {NoFile, File(<<>>)}]

NoArchive == [exists |-> FALSE, complete |-> FALSE, data |-> <<>>]

\* fDownload: writes the response body to the path; an error may leave a
\* partial file, or the path as it was
fDownload(path, ok, body, partial) ==
    IF ok THEN [exists |-> TRUE, complete |-> TRUE, data |-> body]
    ELSE IF partial THEN [exists |-> TRUE, complete |-> FALSE, data |-> <<>>]
    ELSE path

fDeleteNever(path) == path

\* fExist / fDelete: the stale archive is removed before the download
fDeleteIfExist(path) == IF path.exists THEN NoArchive ELSE path

\* downloadCerts, downloadCcd: the archive path after the call
download(path, ok, body, partial) == fDownload(fDeleteIfExist(path), ok, body, partial)

unArchiveCcdSkipped(dir, archive) == dir

unArchiveCcdCleared(dir, archive) == archive.data

\* tar -xzf into the live directory: files of the archive replace, others stay
unArchiveCcd(dir, archive) ==
    [u \in DOMAIN dir |-> IF archive.data[u].exists THEN archive.data[u] ELSE dir[u]]

unArchiveCerts(file, archive) == File(archive.data)

\* history of a sync cycle: what it started from and what its downloads did
SyncHist(cycles, prevCertsOk, prevCcdOk) ==
    [op |-> "sync", cycles |-> cycles, startSuccess |-> lastSuccessfulSyncTime,
     startAttempt |-> lastSyncTime, certsAttempts |-> 0, ccdAttempts |-> 0,
     certsOk |-> FALSE, ccdOk |-> FALSE, finishedAt |-> 0,
     prevCertsOk |-> prevCertsOk, prevCcdOk |-> prevCcdOk,
     certsExtractions |-> 0, ccdExtractions |-> 0, attemptAfterSuccess |-> FALSE,
     extractionAfterFailure |-> FALSE, staleArchive |-> FALSE]

\* history of all cycles: the ccd directory the slave started with and the
\* users whose file was in an extracted ccd archive
SyncPast(firstCcdDir, archived) == [firstCcdDir |-> firstCcdDir, archived |-> archived]

SyncInit ==
    /\ role = "slave"
    /\ masterSyncToken = "justasimpleword"
    /\ openvpnNetwork = <<>>
    /\ now = 0
    /\ lastSyncTime = unknown
    /\ lastSuccessfulSyncTime = unknown
    /\ clients = <<>>
    /\ activeClients = <<>>
    /\ indexTxt \in SlaveIndexTxts
    /\ ccdDir \in SlaveCcdDirs
    /\ certsArchive = NoArchive
    /\ ccdArchive = NoArchive
    /\ pc = "start"
    /\ certsDownloadFailed = TRUE
    /\ ccdDownloadFailed = TRUE
    /\ certsDownloadRetries = 0
    /\ ccdDownloadRetries = 0
    /\ resp = <<>>
    /\ hist = SyncHist(0, FALSE, FALSE) @@ SyncPast(ccdDir, {})
    /\ arg = <<>>
    /\ ret = <<>>

syncFrame == <<nodeVars, clients, activeClients, resp, arg, ret>>

\* syncDataFromMaster, lines 928-932
SyncBegin ==
    /\ pc = "start"
    /\ certsDownloadFailed' = TRUE
    /\ ccdDownloadFailed' = TRUE
    /\ certsDownloadRetries' = 0
    /\ ccdDownloadRetries' = 0
    /\ hist' = SyncHist(hist.cycles + 1, hist.certsOk, hist.ccdOk)
                 @@ SyncPast(hist.firstCcdDir, hist.archived)
    /\ pc' = "certs"
    /\ UNCHANGED <<syncFrame, now, lastSyncTime, lastSuccessfulSyncTime, indexTxt,
                   ccdDir, certsArchive, ccdArchive>>

retryLoopOffByOne(failed, retries) == failed /\ retries <= retryCountMax

\* the condition of both retry loops, lines 934 and 946
retryLoop(failed, retries) == failed /\ retries < retryCountMax

\* one iteration of the certs loop, lines 934-944, with downloadCerts
CertsAttempt ==
    /\ pc = "certs"
    /\ retryLoop(certsDownloadFailed, certsDownloadRetries)
    /\ \E ok \in BOOLEAN, body \in MasterIndexTxts, partial \in BOOLEAN :
         LET downloaded == download(certsArchive, ok, body, partial) IN
         /\ certsDownloadRetries' = certsDownloadRetries + 1
         /\ certsArchive' = downloaded
         /\ certsDownloadFailed' = ~ok
         /\ indexTxt' = IF ok THEN unArchiveCerts(indexTxt, downloaded) ELSE indexTxt
         /\ hist' = [hist EXCEPT
                       !.certsAttempts = @ + 1, !.certsOk = @ \/ ok,
                       !.certsExtractions = IF ok THEN @ + 1 ELSE @,
                       !.attemptAfterSuccess = @ \/ hist.certsOk,
                       !.extractionAfterFailure = @ \/ (ok /\ ~downloaded.complete),
                       !.staleArchive = @ \/ fDeleteIfExist(certsArchive).exists]
    /\ UNCHANGED <<syncFrame, now, lastSyncTime, lastSuccessfulSyncTime, ccdDir,
                   ccdArchive, ccdDownloadFailed, ccdDownloadRetries, pc>>

\* the certs loop ends, line 934
CertsExit ==
    /\ pc = "certs"
    /\ ~retryLoop(certsDownloadFailed, certsDownloadRetries)
    /\ pc' = "ccd"
    /\ UNCHANGED <<syncFrame, now, lastSyncTime, lastSuccessfulSyncTime, indexTxt,
                   ccdDir, certsArchive, ccdArchive, syncLocals, hist>>

\* one iteration of the ccd loop, lines 946-956, with downloadCcd
CcdAttempt ==
    /\ pc = "ccd"
    /\ retryLoop(ccdDownloadFailed, ccdDownloadRetries)
    /\ \E ok \in BOOLEAN, body \in MasterCcdDirs, partial \in BOOLEAN :
         LET downloaded == download(ccdArchive, ok, body, partial) IN
         /\ ccdDownloadRetries' = ccdDownloadRetries + 1
         /\ ccdArchive' = downloaded
         /\ ccdDownloadFailed' = ~ok
         /\ ccdDir' = IF ok THEN unArchiveCcd(ccdDir, downloaded) ELSE ccdDir
         /\ hist' = [hist EXCEPT
                       !.ccdAttempts = @ + 1, !.ccdOk = @ \/ ok,
                       !.ccdExtractions = IF ok THEN @ + 1 ELSE @,
                       !.attemptAfterSuccess = @ \/ hist.ccdOk,
                       !.extractionAfterFailure = @ \/ (ok /\ ~downloaded.complete),
                       !.staleArchive = @ \/ fDeleteIfExist(ccdArchive).exists,
                       !.archived = IF ok THEN @ \cup {u \in SyncUsers : body[u].exists}
                                    ELSE @]
    /\ UNCHANGED <<syncFrame, now, lastSyncTime, lastSuccessfulSyncTime, indexTxt,
                   certsArchive, certsDownloadFailed, certsDownloadRetries, pc>>

\* the ccd loop ends, line 946
CcdExit ==
    /\ pc = "ccd"
    /\ ~retryLoop(ccdDownloadFailed, ccdDownloadRetries)
    /\ pc' = "finish"
    /\ UNCHANGED <<syncFrame, now, lastSyncTime, lastSuccessfulSyncTime, indexTxt,
                   ccdDir, certsArchive, ccdArchive, syncLocals, hist>>

EitherDownloaded(ccdFailed, certsFailed) == ~ccdFailed \/ ~certsFailed

\* line 959: the condition under which the success stamp is written
BothDownloaded(ccdFailed, certsFailed) == ~ccdFailed /\ ~certsFailed

\* lines 958-961; the two time.Now() calls may fall in different seconds
SyncFinish ==
    /\ pc = "finish"
    /\ \E d \in 0..1 :
         /\ lastSyncTime' = FormatNow(now)
         /\ lastSuccessfulSyncTime' =
              IF BothDownloaded(ccdDownloadFailed, certsDownloadFailed)
              THEN FormatNow(now + d) ELSE lastSuccessfulSyncTime
         /\ now' = now + d
    /\ hist' = [hist EXCEPT !.finishedAt = now]
    /\ pc' = "sleep"
    /\ UNCHANGED <<syncFrame, indexTxt, ccdDir, certsArchive, ccdArchive, syncLocals>>

\* syncWithMaster, lines 965-968: sleep, then the next cycle
SyncSleep ==
    /\ pc = "sleep"
    /\ hist.cycles < MaxCycles
    /\ now' = now + masterSyncFrequency
    /\ pc' = "start"
    /\ UNCHANGED <<syncFrame, lastSyncTime, lastSuccessfulSyncTime, indexTxt, ccdDir,
                   certsArchive, ccdArchive, syncLocals, hist>>

SyncNext ==
    \/ SyncBegin
    \/ CertsAttempt
    \/ CertsExit
    \/ CcdAttempt
    \/ CcdExit
    \/ SyncFinish
    \/ SyncSleep

SpecSync == SyncInit /\ [][SyncNext]_vars

\* a sync cycle has run to its end
CycleDone == pc = "sleep"

\* C1: in a cycle in which every download of a sub-flow fails, that sub-flow
\* makes exactly 3 attempts (never more at any time), and at the end of the
\* cycle lastSuccessfulSyncTime is what it was before the cycle while
\* lastSyncTime carries the time of this cycle's end.
C1_FailedSubflowThreeAttempts ==
    /\ hist.certsAttempts <= 3 /\ hist.ccdAttempts <= 3
    /\ CycleDone =>
         /\ ~hist.certsOk => hist.certsAttempts = 3
         /\ ~hist.ccdOk => hist.ccdAttempts = 3
         /\ (~hist.certsOk \/ ~hist.ccdOk) =>
              /\ lastSuccessfulSyncTime = hist.startSuccess
              /\ lastSyncTime = FormatNow(hist.finishedAt)
              /\ lastSyncTime # hist.startAttempt

\* a second cycle whose certificate downloads all failed, after a first cycle
\* that stamped a success
C1_Witness ==
    /\ CycleDone /\ hist.cycles = 2
    /\ ~hist.certsOk /\ hist.certsAttempts = 3
    /\ hist.startSuccess # unknown
    /\ lastSuccessfulSyncTime = hist.startSuccess

\* C2: at the end of every cycle lastSyncTime is the time of that end; and
\* lastSuccessfulSyncTime is stamped in the cycle iff both sub-flows had a
\* successful download in this same cycle, else it keeps its earlier value.
C2_StampsAtCycleEnd ==
    CycleDone =>
      /\ lastSyncTime = FormatNow(hist.finishedAt)
      /\ lastSyncTime # hist.startAttempt
      /\ IF hist.certsOk /\ hist.ccdOk
         THEN /\ lastSuccessfulSyncTime \in
                   {FormatNow(hist.finishedAt), FormatNow(hist.finishedAt + 1)}
              /\ lastSuccessfulSyncTime # hist.startSuccess
         ELSE lastSuccessfulSyncTime = hist.startSuccess

\* certificates succeeded only in the first cycle, policy only in the second:
\* no success is stamped
C2_Witness ==
    /\ CycleDone /\ hist.cycles = 2
    /\ hist.prevCertsOk /\ ~hist.prevCcdOk
    /\ ~hist.certsOk /\ hist.ccdOk
    /\ lastSuccessfulSyncTime = unknown
    /\ lastSyncTime = FormatNow(hist.finishedAt)

\* the goroutine of syncWithMaster runs on: every step of a cycle that can be
\* taken is taken (each download returns)
SpecSyncFair == SyncInit /\ [][SyncNext]_vars /\ WF_vars(SyncNext)

\* the certs loop, the ccd loop of the current cycle has been left
CertsLoopDone == pc \in {"ccd", "finish", "sleep"}

CcdLoopDone == pc \in {"finish", "sleep"}

AttemptsBounded ==
    /\ hist.certsAttempts <= 3 /\ hist.ccdAttempts <= 3
    /\ hist.certsAttempts + hist.ccdAttempts <= 6
    /\ CertsLoopDone => hist.certsAttempts >= 1
    /\ CcdLoopDone => hist.ccdAttempts >= 1
    /\ ~hist.attemptAfterSuccess

ExtractionFollowsSuccess ==
    /\ hist.certsExtractions = (IF hist.certsOk THEN 1 ELSE 0)
    /\ hist.ccdExtractions = (IF hist.ccdOk THEN 1 ELSE 0)
    /\ ~hist.extractionAfterFailure

\* C17: within one sync cycle each sub-flow makes between 1 and 3 download
\* attempts and none after its first success; extraction runs once if an
\* attempt succeeded, never otherwise and never after a failed download;
\* every attempt starts its download with no file at the temp archive path;
\* and every cycle that has started reaches its end, after at most 6 attempts.
C17_CycleBounded ==
    /\ [](AttemptsBounded /\ ExtractionFollowsSuccess /\ ~hist.staleArchive)
    /\ (pc = "certs" ~> CycleDone)

\* a second cycle ended: certificates downloaded at the third attempt over the
\* archive of the first cycle, policies at the first attempt
C17_Witness ==
    /\ CycleDone /\ hist.cycles = 2
    /\ hist.prevCertsOk /\ hist.prevCcdOk
    /\ hist.certsOk /\ hist.certsAttempts = 3 /\ hist.certsExtractions = 1
    /\ hist.ccdOk /\ hist.ccdAttempts = 1 /\ hist.ccdExtractions = 1

\* the live registry is the one of the downloaded certs archive
CertsExtracted == certsArchive.complete /\ indexTxt = File(certsArchive.data)

\* every file of the downloaded ccd archive is in the live ccd directory
CcdExtracted ==
    /\ ccdArchive.complete
    /\ \A u \in DOMAIN ccdDir :
         ccdArchive.data[u].exists => ccdDir[u] = ccdArchive.data[u]

\* C18: the two sub-flows of a cycle are independent: at the end of a cycle
\* the policy sub-flow has been attempted whatever the certificate sub-flow
\* did, each sub-flow that had a successful download has its archive extracted
\* into the live directory whatever the other did, and the success stamp is
\* kept as it was unless both succeeded.
C18_SubflowsIndependent ==
    CycleDone =>
      /\ hist.certsAttempts >= 1 /\ hist.ccdAttempts >= 1
      /\ hist.certsOk => CertsExtracted
      /\ hist.ccdOk => CcdExtracted
      /\ (~hist.certsOk \/ ~hist.ccdOk) => lastSuccessfulSyncTime = hist.startSuccess

\* the certificate sub-flow failed 3 times, the policy sub-flow then
\* downloaded and extracted a file for alice; no success was ever stamped
C18_Witness ==
    /\ CycleDone
    /\ ~hist.certsOk /\ hist.certsAttempts = 3
    /\ hist.ccdOk /\ ccdDir[alice] = File(<<MasterCcdLine>>)
    /\ lastSuccessfulSyncTime = unknown

-----------------------------------------------------------------------------
(* Status parser of the management interface: mgmtConnectedUsersParser *)

MaxClientRows == 2

MaxRouteRows == 2

Comma == ","

clientListHeader ==
    <<"Common Name", Comma, "Real Address", Comma, "Bytes Received", Comma,
      "Bytes Sent", Comma, "Connected Since">>

routingTableLine == <<"ROUTING TABLE">>

routeTableHeader ==
    <<"Virtual Address", Comma, "Common Name", Comma, "Real Address", Comma, "Last Ref">>

globalStatsLine == <<"GLOBAL STATS">>

\* bufio.Scanner with the default ScanLines: no empty last line
ScanLines(text) ==
    LET pieces == Split(text, Nl) IN
    IF pieces[Len(pieces)] = <<>> THEN SubSeq(pieces, 1, Len(pieces) - 1) ELSE pieces

newClientStatus(user) ==
    [CommonName |-> At(user, 0), RealAddress |-> At(user, 1),
     BytesReceived |-> At(user, 2), BytesSent |-> At(user, 3),
     ConnectedSince |-> At(user, 4), VirtualAddress |-> <<>>, LastRef |-> <<>>,
     ConnectedSinceFormatted |-> <<>>, LastRefFormatted |-> <<>>]

\* the indices of u whose CommonName is that of the routing row
Matching(u, user) == {i \in 1..Len(u) : u[i].CommonName = At(user, 1)}

routeFillEvery(u, user) ==
    [i \in 1..Len(u) |->
       IF i \in Matching(u, user)
       THEN [u[i] EXCEPT !.VirtualAddress = At(user, 0), !.LastRef = At(user, 3)]
       ELSE u[i]]

routeFillLast(u, user) ==
    [i \in 1..Len(u) |->
       IF i \in Matching(u, user) /\ \A j \in Matching(u, user) : i >= j
       THEN [u[i] EXCEPT !.VirtualAddress = At(user, 0), !.LastRef = At(user, 3)]
       ELSE u[i]]

\* lines 831-838: the first record with the row's common name is filled, then break
routeFill(u, user) ==
    [i \in 1..Len(u) |->
       IF i \in Matching(u, user) /\ \A j \in Matching(u, user) : i <= j
       THEN [u[i] EXCEPT !.VirtualAddress = At(user, 0), !.LastRef = At(user, 3)]
       ELSE u[i]]

\* a routing row panics when a field it reads is missing
routePanics(u, user) ==
    \/ Len(u) > 0 /\ ~InRange(user, 1)
    \/ Matching(u, user) # {} /\ ~InRange(user, 3)

scanStart ==
    [u |-> <<>>, isClientList |-> FALSE, isRouteTable |-> FALSE, stop |-> FALSE,
     panic |-> FALSE]

\* the body of the scanner loop for one line, lines 795-839
scanLine(st, txt) ==
    IF st.stop \/ st.panic THEN st
    ELSE IF txt = clientListHeader THEN [st EXCEPT !.isClientList = TRUE]
    ELSE IF txt = routingTableLine THEN [st EXCEPT !.isClientList = FALSE]
    ELSE IF txt = routeTableHeader THEN [st EXCEPT !.isRouteTable = TRUE]
    ELSE IF txt = globalStatsLine THEN [st EXCEPT !.stop = TRUE]
    ELSE
      LET user == Split(txt, Comma)
          afterClient ==
            IF ~st.isClientList THEN st
            ELSE IF ~InRange(user, 4) THEN [st EXCEPT !.panic = TRUE]
            ELSE [st EXCEPT !.u = Append(@, newClientStatus(user))]
      IN IF afterClient.panic \/ ~afterClient.isRouteTable THEN afterClient
         ELSE IF routePanics(afterClient.u, user) THEN [afterClient EXCEPT !.panic = TRUE]
         ELSE [afterClient EXCEPT !.u = routeFill(@, user)]

RECURSIVE scanAll(_, _)
scanAll(st, lines) ==
    IF lines = <<>> THEN st ELSE scanAll(scanLine(st, Head(lines)), Tail(lines))

\* mgmtConnectedUsersParser: the slice returned, or a panic
mgmtConnectedUsersParser(text) ==
    LET st == scanAll(scanStart, ScanLines(text)) IN
    [panic |-> st.panic, u |-> IF st.panic THEN <<>> ELSE st.u]

\* the rows a status report is drawn from
CommonNames == {alice, bob}

ClientRows ==
    [cn : CommonNames, real : {<<"10.0.0.5:1194">>, <<"10.0.0.6:1194">>},
     recv : {<<"100">>}, sent : {<<"200">>}, since : {<<"Mon Jan 2 15:04:05 2024">>}]

RouteRows ==
    [virt : {<<"172.16.100.10">>, <<"172.16.100.11">>},
     cn : CommonNames \cup {<<"c", "a", "r", "o", "l">>},
     real : {<<"10.0.0.5:1194">>}, ref : {<<"Mon Jan 2 15:05:00 2024">>}]

SeqsUpTo(S, n) == UNION {[1..k -> S] : k \in 0..n}

clientRowText(r) ==
    r.cn \o <<Comma>> \o r.real \o <<Comma>> \o r.recv \o <<Comma>> \o r.sent
      \o <<Comma>> \o r.since \o <<Nl>>

routeRowText(r) ==
    r.virt \o <<Comma>> \o r.cn \o <<Comma>> \o r.real \o <<Comma>> \o r.ref \o <<Nl>>

\* the reply to "status": title, client list, routing table, global stats
statusText(rows, routes) ==
    <<"OpenVPN CLIENT LIST", Nl, "Updated", Comma, "Mon Jan 2 15:05:01 2024", Nl>>
      \o clientListHeader \o <<Nl>>
      \o Concat([i \in 1..Len(rows) |-> clientRowText(rows[i])])
      \o routingTableLine \o <<Nl>>
      \o routeTableHeader \o <<Nl>>
      \o Concat([i \in 1..Len(routes) |-> routeRowText(routes[i])])
      \o globalStatsLine \o <<Nl>>
      \o <<"Max bcast/mcast queue length", Comma, "0", Nl, "END", Nl>>

\* the client rows a node's own socket reports
ApiClientRows ==
    [cn : {alice}, real : {<<"10.0.0.5:1194">>}, recv : {<<"100">>}, sent : {<<"200">>},
     since : {<<"Mon Jan 2 15:04:05 2024">>}]

StatusInit ==
    /\ role = "master"
    /\ masterSyncToken = "justasimpleword"
    /\ openvpnNetwork = <<>>
    /\ now = 0
    /\ lastSyncTime = unknown
    /\ lastSuccessfulSyncTime = unknown
    /\ clients = <<>>
    /\ activeClients = <<>>
    /\ indexTxt = NoFile
    /\ ccdDir = <<>>
    /\ certsArchive = NoArchive
    /\ ccdArchive = NoArchive
    /\ pc = "call"
    /\ certsDownloadFailed = TRUE
    /\ ccdDownloadFailed = TRUE
    /\ certsDownloadRetries = 0
    /\ ccdDownloadRetries = 0
    /\ resp = <<>>
    /\ hist = <<>>
    /\ \E rows \in SeqsUpTo(ClientRows, MaxClientRows),
          routes \in SeqsUpTo(RouteRows, MaxRouteRows) :
         arg = [rows |-> rows, routes |-> routes, text |-> statusText(rows, routes)]
    /\ ret = <<>>

\* the parser is applied to the report read from the socket, line 864
StatusParse ==
    /\ pc = "call"
    /\ ret' = mgmtConnectedUsersParser(arg.text)
    /\ pc' = "done"
    /\ UNCHANGED <<nodeVars, now, lastSyncTime, lastSuccessfulSyncTime, clients,
                   activeClients, indexTxt, ccdDir, certsArchive, ccdArchive,
                   syncLocals, resp, hist, arg>>

StatusNext == StatusParse

SpecStatus == StatusInit /\ [][StatusNext]_vars

\* some routing row of the report carries this common name
Routed(cn) == \E k \in 1..Len(arg.routes) : arg.routes[k].cn = cn

\* record i is the first of the client list with its common name
FirstOfName(i) == \A j \in 1..(i - 1) : arg.rows[j].cn # arg.rows[i].cn

\* the parser returned one record per client row, in client-list order
OnePerClientRow ==
    /\ ~ret.panic
    /\ Len(ret.u) = Len(arg.rows)
    /\ \A i \in 1..Len(arg.rows) :
         /\ ret.u[i].CommonName = arg.rows[i].cn
         /\ ret.u[i].RealAddress = arg.rows[i].real
         /\ ret.u[i].ConnectedSince = arg.rows[i].since

HasVirtual(r) == r.VirtualAddress # <<>> /\ r.LastRef # <<>>

NoVirtual(r) == r.VirtualAddress = <<>> /\ r.LastRef = <<>>

\* C5 (as amended): for a report with N client rows and M routing rows the
\* parser returns exactly N records in client-list order, and a record has
\* virtualAddress and lastRef set iff some routing row carries its common
\* name and no earlier client-list record has the same common name.
C5_FirstMatchFilled ==
    pc = "done" =>
      /\ OnePerClientRow
      /\ \A i \in 1..Len(ret.u) :
           IF Routed(ret.u[i].CommonName) /\ FirstOfName(i)
           THEN HasVirtual(ret.u[i]) ELSE NoVirtual(ret.u[i])

\* two client rows of one common name and a routing row for it
C5_Witness ==
    /\ pc = "done"
    /\ Len(ret.u) = 2 /\ Len(arg.routes) = 2
    /\ ret.u[1].CommonName = ret.u[2].CommonName
    /\ HasVirtual(ret.u[1]) /\ NoVirtual(ret.u[2])

\* C5 (as stated): a record has virtualAddress and lastRef set iff some
\* routing row carries its common name.
C5_Original ==
    pc = "done" =>
      /\ OnePerClientRow
      /\ \A i \in 1..Len(ret.u) :
           IF Routed(ret.u[i].CommonName)
           THEN HasVirtual(ret.u[i]) ELSE NoVirtual(ret.u[i])

\* the record holds the virtual address and the last reference of one
\* routing row of its common name
FilledFromRoute(r) ==
    \E k \in 1..Len(arg.routes) :
      /\ arg.routes[k].cn = r.CommonName
      /\ r.VirtualAddress = arg.routes[k].virt
      /\ r.LastRef = arg.routes[k].ref

\* C20: when several client-list records share a common name, the routing
\* rows of that name fill virtualAddress and lastRef of the first of them
\* only; every later record of that name keeps both fields empty, however
\* many routing rows carry the name.
C20_LaterDuplicatesStayEmpty ==
    pc = "done" =>
      /\ ~ret.panic
      /\ \A i, j \in 1..Len(ret.u) :
           (i < j /\ ret.u[i].CommonName = ret.u[j].CommonName) =>
             /\ NoVirtual(ret.u[j])
             /\ (FirstOfName(i) /\ Routed(ret.u[i].CommonName)) => FilledFromRoute(ret.u[i])

\* two client rows of alice and two routing rows of alice with different
\* virtual addresses: the first record holds the second row's address, the
\* second record holds none
C20_Witness ==
    /\ pc = "done"
    /\ Len(arg.rows) = 2 /\ arg.rows[1].cn = alice /\ arg.rows[2].cn = alice
    /\ Len(arg.routes) = 2 /\ arg.routes[1].cn = alice /\ arg.routes[2].cn = alice
    /\ arg.routes[1].virt # arg.routes[2].virt
    /\ ret.u[1].VirtualAddress = arg.routes[2].virt
    /\ NoVirtual(ret.u[2])

-----------------------------------------------------------------------------
(* Registry (index.txt): indexTxtParser, renderIndexTxt *)

MaxTextLen == 4

MaxRegistryLines == 2

IsSpace(c) == c \in {Tab, Sp, Nl, "\r"}

\* the 0-based position where the word starting at position k ends
RECURSIVE WordEnd(_, _)
WordEnd(s, k) == IF k >= Len(s) \/ IsSpace(s[k + 1]) THEN k ELSE WordEnd(s, k + 1)

\* the words of s from position k on
RECURSIVE FieldsFrom(_, _)
FieldsFrom(s, k) ==
    IF k >= Len(s) THEN <<>>
    ELSE IF IsSpace(s[k + 1]) THEN FieldsFrom(s, k + 1)
    ELSE LET e == WordEnd(s, k) IN <<SubSeq(s, k + 1, e)>> \o FieldsFrom(s, e)

\* strings.Fields: the maximal runs of non-space characters
Fields(s) == FieldsFrom(s, 0)

\* strings.HasPrefix(s, c) for a one-character prefix
HasPrefix(s, c) == s # <<>> /\ Head(s) = c

\* s[strings.Index(s, "=")+1:], the identity of a distinguished name
afterEquals(s) == SubSeq(s, Index(s, "=") + 2, Len(s))

\* lines 439-446: the record of one line, none, or a panic on a missing field
indexTxtParseLine(v) ==
    LET str == Fields(v) IN
    IF Len(str) = 0 THEN [panic |-> FALSE, lines |-> <<>>]
    ELSE IF HasPrefix(At(str, 0), "V") THEN
      IF ~InRange(str, 4) THEN [panic |-> TRUE, lines |-> <<>>]
      ELSE [panic |-> FALSE,
            lines |-> <<[Flag |-> At(str, 0), ExpirationDate |-> At(str, 1),
                         RevocationDate |-> <<>>, SerialNumber |-> At(str, 2),
                         Filename |-> At(str, 3), DistinguishedName |-> At(str, 4),
                         Identity |-> afterEquals(At(str, 4))]>>]
    ELSE IF HasPrefix(At(str, 0), "R") THEN
      IF ~InRange(str, 5) THEN [panic |-> TRUE, lines |-> <<>>]
      ELSE [panic |-> FALSE,
            lines |-> <<[Flag |-> At(str, 0), ExpirationDate |-> At(str, 1),
                         RevocationDate |-> At(str, 2), SerialNumber |-> At(str, 3),
                         Filename |-> At(str, 4), DistinguishedName |-> At(str, 5),
                         Identity |-> afterEquals(At(str, 5))]>>]
    ELSE [panic |-> FALSE, lines |-> <<>>]

RECURSIVE indexTxtParseLines(_)
indexTxtParseLines(txtLinesArray) ==
    IF txtLinesArray = <<>> THEN [panic |-> FALSE, lines |-> <<>>]
    ELSE LET first == indexTxtParseLine(Head(txtLinesArray)) IN
         IF first.panic THEN first
         ELSE LET rest == indexTxtParseLines(Tail(txtLinesArray)) IN
              IF rest.panic THEN rest
              ELSE [panic |-> FALSE, lines |-> first.lines \o rest.lines]

\* indexTxtParser: the records of the text, or a panic (index out of range)
indexTxtParser(txt) == indexTxtParseLines(Split(txt, Nl))

renderLineNoRevocation(line) ==
    IF line.Flag \in {<<"V">>, <<"R">>}
    THEN line.Flag \o <<Tab>> \o line.ExpirationDate \o <<Tab, Tab>> \o line.SerialNumber
           \o <<Tab>> \o line.Filename \o <<Tab>> \o line.DistinguishedName \o <<Nl>>
    ELSE <<>>

\* lines 456-462: the text of one record
renderLine(line) ==
    IF line.Flag = <<"V">>
    THEN line.Flag \o <<Tab>> \o line.ExpirationDate \o <<Tab, Tab>> \o line.SerialNumber
           \o <<Tab>> \o line.Filename \o <<Tab>> \o line.DistinguishedName \o <<Nl>>
    ELSE IF line.Flag = <<"R">>
    THEN line.Flag \o <<Tab>> \o line.ExpirationDate \o <<Tab>> \o line.RevocationDate
           \o <<Tab>> \o line.SerialNumber \o <<Tab>> \o line.Filename \o <<Tab>>
           \o line.DistinguishedName \o <<Nl>>
    ELSE <<>>

\* renderIndexTxt
renderIndexTxt(data) == Concat([i \in 1..Len(data) |-> renderLine(data[i])])

\* the texts the parser is tried on: any short text over a small alphabet
TextAlphabet == {"V", "R", "x", "=", Tab, Nl}

ShortTexts == SeqsUpTo(TextAlphabet, MaxTextLen)

\* and texts made of well-formed V and R lines
DistinguishedNames ==
    { [dn |-> <<"/CN", "=">> \o alice, identity |-> alice],
      [dn |-> <<"/CN", "=">> \o server, identity |-> server],
      [dn |-> <<"/C", "=", "US", "/CN", "=">> \o bob,
       identity |-> <<"US", "/CN", "=">> \o bob] }

WellFormedLines ==
    [flag : {"V", "R"}, exp : {"250101000000Z"}, rev : {"240101000000Z"},
     serial : {"01", "02"}, file : {"unknown"}, name : DistinguishedNames,
     sep : {Tab, Sp}]

\* the text of a well-formed line: the PKI tool leaves the revocation column of
\* a V line empty
wellFormedText(l) ==
    IF l.flag = "V"
    THEN <<"V", l.sep, l.exp, l.sep, l.sep, l.serial, l.sep, l.file, l.sep>> \o l.name.dn
    ELSE <<"R", l.sep, l.exp, l.sep, l.rev, l.sep, l.serial, l.sep, l.file, l.sep>>
           \o l.name.dn

registryText(ls) == Concat([i \in 1..Len(ls) |-> wellFormedText(ls[i]) \o <<Nl>>])

IndexInputs ==
    {[wellFormed |-> FALSE, from |-> <<>>, text |-> t] : t \in ShortTexts}
      \cup {[wellFormed |-> TRUE, from |-> ls, text |-> registryText(ls)] :
              ls \in SeqsUpTo(WellFormedLines, MaxRegistryLines)}

IndexInit ==
    /\ role = "master"
    /\ masterSyncToken = "justasimpleword"
    /\ openvpnNetwork = <<>>
    /\ now = 0
    /\ lastSyncTime = unknown
    /\ lastSuccessfulSyncTime = unknown
    /\ clients = <<>>
    /\ activeClients = <<>>
    /\ indexTxt = NoFile
    /\ ccdDir = <<>>
    /\ certsArchive = NoArchive
    /\ ccdArchive = NoArchive
    /\ pc = "call"
    /\ certsDownloadFailed = TRUE
    /\ ccdDownloadFailed = TRUE
    /\ certsDownloadRetries = 0
    /\ ccdDownloadRetries = 0
    /\ resp = <<>>
    /\ hist = <<>>
    /\ arg \in IndexInputs
    /\ ret = [first |-> [panic |-> FALSE, lines |-> <<>>], rendered |-> <<>>,
              second |-> [panic |-> FALSE, lines |-> <<>>]]

indexFrame ==
    <<nodeVars, now, lastSyncTime, lastSuccessfulSyncTime, clients, activeClients,
      indexTxt, ccdDir, certsArchive, ccdArchive, syncLocals, resp, hist, arg>>

\* indexTxtParser(fRead(*indexTxtPath)), as at lines 628, 646 and 742
IndexParse ==
    /\ pc = "call"
    /\ ret' = [ret EXCEPT !.first = indexTxtParser(arg.text)]
    /\ pc' = IF ret'.first.panic THEN "panic" ELSE "parsed"
    /\ UNCHANGED indexFrame

\* renderIndexTxt of the parsed records, as at line 767
IndexRender ==
    /\ pc = "parsed"
    /\ ret' = [ret EXCEPT !.rendered = renderIndexTxt(ret.first.lines)]
    /\ pc' = "rendered"
    /\ UNCHANGED indexFrame

\* the rewritten file is parsed again, line 770 with 646
IndexReparse ==
    /\ pc = "rendered"
    /\ ret' = [ret EXCEPT !.second = indexTxtParser(ret.rendered)]
    /\ pc' = "reparsed"
    /\ UNCHANGED indexFrame

IndexNext == IndexParse \/ IndexRender \/ IndexReparse

SpecIndex == IndexInit /\ [][IndexNext]_vars

\* the lines of the text whose first token starts with V or R
FlaggedLines(text) ==
    LET txtLinesArray == Split(text, Nl) IN
    {i \in 1..Len(txtLinesArray) :
       LET str == Fields(txtLinesArray[i]) IN
       str # <<>> /\ (HasPrefix(At(str, 0), "V") \/ HasPrefix(At(str, 0), "R"))}

\* C6: the registry parser is total: whatever the text, also with a V or R
\* line of fewer than 5 or 6 fields, it returns records and raises no error;
\* blank lines and lines whose first token is no flag contribute no record.
C6_ParserTotal ==
    /\ pc # "panic"
    /\ pc = "parsed" => Len(ret.first.lines) = Cardinality(FlaggedLines(arg.text))

\* a text whose only line starts with V and has fewer than 5 fields
C6_ShortLine ==
    /\ pc = "panic"
    /\ arg.text = <<"V", Tab, "x">>

\* the record the parser is to give for a well-formed line
expectedRecord(l) ==
    [Flag |-> <<l.flag>>, ExpirationDate |-> <<l.exp>>,
     RevocationDate |-> IF l.flag = "R" THEN <<l.rev>> ELSE <<>>,
     SerialNumber |-> <<l.serial>>, Filename |-> <<l.file>>,
     DistinguishedName |-> l.name.dn, Identity |-> l.name.identity]

\* C7: for a text t of well-formed V and R lines, parse(render(parse(t)))
\* equals parse(t): as many records as lines, in the same order, each with
\* the flag, dates, serial number, filename, distinguished name and identity
\* of its line.
C7_RoundTrip ==
    arg.wellFormed =>
      /\ pc # "panic"
      /\ pc \in {"parsed", "rendered", "reparsed"} =>
           /\ Len(ret.first.lines) = Len(arg.from)
           /\ \A i \in 1..Len(arg.from) : ret.first.lines[i] = expectedRecord(arg.from[i])
      /\ pc = "reparsed" => ret.second = ret.first

\* a V line and an R line, space-separated in the input, after the round trip
C7_Witness ==
    /\ arg.wellFormed /\ pc = "reparsed"
    /\ Len(arg.from) = 2
    /\ arg.from[1].flag = "V" /\ arg.from[2].flag = "R"
    /\ arg.from[1].sep = Sp
    /\ ret.rendered # arg.text
    /\ Len(ret.second.lines) = 2


-----------------------------------------------------------------------------
(* CCD policy files: parseCcd, validateCcd, checkStaticAddressIsFree, modifyCcd *)

Digits == <<"0", "1", "2", "3", "4", "5", "6", "7", "8", "9">>

IsDigit(c) == \E i \in 1..10 : Digits[i] = c

DigitVal(c) == (CHOOSE i \in 1..10 : Digits[i] = c) - 1

\* the value of a run of decimal digits
RECURSIVE Atoi(_)
Atoi(s) == IF s = <<>> THEN 0 ELSE 10 * Atoi(SubSeq(s, 1, Len(s) - 1)) + DigitVal(s[Len(s)])

\* the decimal text of a natural number
RECURSIVE NatText(_)
NatText(n) == IF n < 10 THEN <<Digits[n + 1]>> ELSE NatText(n \div 10) \o <<Digits[(n % 10) + 1]>>

\* the dotted text of four octets
IPText(o) ==
    NatText(o[1]) \o <<".">> \o NatText(o[2]) \o <<".">> \o NatText(o[3]) \o <<".">>
      \o NatText(o[4])

\* net.ParseIP for dotted-decimal text: four parts of 1 to 3 digits, each <= 255
ParseIP(s) ==
    LET parts == Split(s, ".")
        good(q) == Len(q) \in 1..3 /\ (\A i \in 1..Len(q) : IsDigit(q[i])) /\ Atoi(q) <= 255
    IN IF Len(parts) = 4 /\ \A k \in 1..4 : good(parts[k])
       THEN [ok |-> TRUE, ip |-> [k \in 1..4 |-> Atoi(parts[k])]]
       ELSE [ok |-> FALSE, ip |-> <<>>]

\* the bits of the prefix that fall in octet k
OctetBits(bits, k) ==
    LET left == bits - 8 * (k - 1) IN IF left < 0 THEN 0 ELSE IF left > 8 THEN 8 ELSE left

\* an octet with all but its leading b bits cleared
MaskOctet(o, b) == (o \div (2 ^ (8 - b))) * (2 ^ (8 - b))

\* net.ParseCIDR: the network of "a.b.c.d/bits", its address masked
ParseCIDR(s) ==
    LET parts == Split(s, "/")
        bits == Atoi(parts[2])
        addr == ParseIP(parts[1]).ip
    IN [ip |-> [k \in 1..4 |-> MaskOctet(addr[k], OctetBits(bits, k))], bits |-> bits]

\* (*IPNet).Contains
Contains(n, ip) == \A k \in 1..4 : MaskOctet(ip[k], OctetBits(n.bits, k)) = n.ip[k]

dynamic == <<"d", "y", "n", "a", "m", "i", "c">>

\* the flag default of ccd.path, line 50
ccdDirPath == <<"/mnt/ccd">>

ccdPath(username) == ccdDirPath \o <<"/">> \o username

\* the characters a "." of a grep pattern stands for: atoms of one character
SingleChars ==
    {Digits[i] : i \in 1..10}
      \cup {".", "-", "_", "/", " ", "\"", "#", "a", "b", "c", "d", "e", "i", "l", "m", "n", "o", "y"}

\* a pattern character against a text character: "." matches any character
MatchChar(p, c) == p = c \/ (p = "." /\ c \in SingleChars)

MatchAt(pat, text, k) ==
    /\ k + Len(pat) - 1 <= Len(text)
    /\ \A i \in 1..Len(pat) : MatchChar(pat[i], text[k + i - 1])

\* grep: the pattern matches somewhere in the line
GrepLine(pat, text) == \E k \in 1..(Len(text) + 1) : MatchAt(pat, text, k)

\* grep -x: the pattern matches the whole line
GrepWholeLine(pat, text) == Len(pat) = Len(text) /\ MatchAt(pat, text, 1)

\* grep -rl: the paths of the files with a matching line
GrepFiles(pat, dir) ==
    {f \in DOMAIN dir :
       dir[f].exists /\ \E i \in 1..Len(dir[f].data) : GrepLine(pat, dir[f].data[i])}

\* checkStaticAddressIsFree: grep -rl ADDR DIR | grep -vx DIR/USER | wc -l is 0
checkStaticAddressIsFree(staticAddress, username, dir) ==
    Cardinality({f \in GrepFiles(staticAddress, dir) :
                   ~GrepWholeLine(ccdPath(username), ccdPath(f))}) = 0

Quote == "\""

\* strings.Trim(s, c) for a one-character cutset
RECURSIVE TrimLeft(_, _)
TrimLeft(s, c) == IF s # <<>> /\ Head(s) = c THEN TrimLeft(Tail(s), c) ELSE s

RECURSIVE TrimRight(_, _)
TrimRight(s, c) ==
    IF s # <<>> /\ s[Len(s)] = c THEN TrimRight(SubSeq(s, 1, Len(s) - 1), c) ELSE s

Trim(s, c) == TrimRight(TrimLeft(s, c), c)

\* ccd.tpl: ifconfig-push unless dynamic, then one push line per route
renderCcd(ccd) ==
    (IF ccd.ClientAddress # dynamic
     THEN << <<"ifconfig-push", Sp>> \o ccd.ClientAddress \o <<Sp>>
               \o IPText(<<255, 255, 255, 0>>) >>
     ELSE <<>>)
      \o [i \in 1..Len(ccd.CustomRoutes) |->
            <<"push", Sp, Quote, "route", Sp>> \o ccd.CustomRoutes[i].Address \o <<Sp>>
              \o ccd.CustomRoutes[i].Mask \o <<Quote, Sp, "#", Sp>>
              \o ccd.CustomRoutes[i].Description]

\* fRead: the content of the file, empty when it cannot be read
fRead(file) == IF file.exists THEN file.data ELSE <<>>

\* lines 507-517 for one line of the file
RECURSIVE parseCcdLines(_, _)
parseCcdLines(ccd, txtLinesArray) ==
    IF txtLinesArray = <<>> THEN ccd
    ELSE LET str == Fields(Head(txtLinesArray))
             next ==
               IF Len(str) = 0 THEN ccd
               ELSE IF HasPrefix(At(str, 0), "ifconfig-push")
               THEN [ccd EXCEPT !.ClientAddress = At(str, 1)]
               ELSE IF HasPrefix(At(str, 0), "push")
               THEN [ccd EXCEPT !.CustomRoutes =
                       Append(@, [Address |-> Trim(At(str, 2), Quote),
                                  Mask |-> Trim(At(str, 3), Quote),
                                  Description |->
                                    Trim(Concat(SubSeq(str, 5, Len(str))), "#")])]
               ELSE ccd
         IN parseCcdLines(next, Tail(txtLinesArray))

\* parseCcd: the entry stored in the user's file
parseCcd(username, dir) ==
    parseCcdLines([User |-> username, ClientAddress |-> dynamic, CustomRoutes |-> <<>>],
                  fRead(dir[username]))

errAssigned == "already assigned to another user"

errNotIP == "not a valid IP address"

errNotInNetwork == "not belongs to openvpn server network"

errRouteAddress == "CustomRoute.Address must be a valid IP address"

errRouteMask == "CustomRoute.Mask must be a valid IP address"

\* lines 580-596: the first route that fails, if any
RECURSIVE validateRoutes(_)
validateRoutes(routes) ==
    IF routes = <<>> THEN ""
    ELSE IF ~ParseIP(Head(routes).Address).ok THEN errRouteAddress
    ELSE IF ~ParseIP(Head(routes).Mask).ok THEN errRouteMask
    ELSE validateRoutes(Tail(routes))

\* validateCcd: the reason of the rejection, "" when accepted
validateCcd(ccd, dir, network) ==
    IF ccd.ClientAddress # dynamic /\ ~checkStaticAddressIsFree(ccd.ClientAddress, ccd.User, dir)
    THEN errAssigned
    ELSE IF ccd.ClientAddress # dynamic /\ ~ParseIP(ccd.ClientAddress).ok
    THEN errNotIP
    ELSE IF ccd.ClientAddress # dynamic
            /\ ~Contains(ParseCIDR(network), ParseIP(ccd.ClientAddress).ip)
    THEN errNotInNetwork
    ELSE validateRoutes(ccd.CustomRoutes)

\* fCreate: the file is created empty when it does not exist
fCreate(dir, username) ==
    IF dir[username].exists THEN dir ELSE [dir EXCEPT ![username] = File(<<>>)]

modifyCcdWriteFirst(ccd, dir, network) ==
    LET created == [fCreate(dir, ccd.User) EXCEPT ![ccd.User] = File(renderCcd(ccd))]
        ccdErr == validateCcd(ccd, created, network)
    IN [ok |-> ccdErr = "", msg |-> IF ccdErr = "" THEN "ccd updated successfully" ELSE ccdErr,
        dir |-> created]

\* modifyCcd: the answer and the directory it leaves
modifyCcd(ccd, dir, network) ==
    LET created == fCreate(dir, ccd.User)
        ccdErr == validateCcd(ccd, created, network)
    IN IF ccdErr # ""
       THEN [ok |-> FALSE, msg |-> ccdErr, dir |-> created]
       ELSE [ok |-> TRUE, msg |-> "ccd updated successfully",
             dir |-> [created EXCEPT ![ccd.User] = File(renderCcd(ccd))]]


-----------------------------------------------------------------------------
(* The users of the registry: usersList, userCreate, userRevoke, userUnrevoke *)

\* parseDateToString from indexTxtDateLayout to stringDateFormat, for the dates
\* of the model
parseDateToString(date) ==
    IF date = <<"250101000000Z">> THEN <<"2025-01-01 00:00:00">>
    ELSE IF date = <<"270101000000Z">> THEN <<"2027-01-01 00:00:00">>
    ELSE IF date = <<"240101000000Z">> THEN <<"2024-01-01 00:00:00">>
    ELSE <<"0001-01-01 00:00:00">>

\* isUserConnected
isUserConnected(username, connectedUsers) ==
    \E i \in 1..Len(connectedUsers) : connectedUsers[i].CommonName = username

\* lines 649-669: the OpenvpnClient of a registry line
ovpnClient(line, connectedUsers) ==
    [Identity |-> line.Identity,
     AccountStatus |-> IF line.Flag = <<"V">> THEN "Active"
                       ELSE IF line.Flag = <<"R">> THEN "Revoked"
                       ELSE IF line.Flag = <<"E">> THEN "Expired" ELSE "",
     ExpirationDate |-> parseDateToString(line.ExpirationDate),
     RevocationDate |-> IF line.Flag = <<"R">>
                        THEN parseDateToString(line.RevocationDate) ELSE <<>>,
     ConnectionStatus |-> IF isUserConnected(line.Identity, connectedUsers)
                          THEN "Connected" ELSE ""]

usersOfEveryLine(lines, connectedUsers) ==
    [i \in 1..Len(lines) |-> ovpnClient(lines[i], connectedUsers)]

RECURSIVE usersOf(_, _)
usersOf(lines, connectedUsers) ==
    IF lines = <<>> THEN <<>>
    ELSE (IF Head(lines).Identity # server
          THEN <<ovpnClient(Head(lines), connectedUsers)>> ELSE <<>>)
           \o usersOf(Tail(lines), connectedUsers)

\* usersList: one OpenvpnClient per line of the registry that is not the server's
usersList(file, connectedUsers) == usersOf(indexTxtParser(fRead(file)).lines, connectedUsers)

\* the gauges usersList sets at lines 683-686, counted at lines 648-668
usersGauges(file, connectedUsers) ==
    LET lines == indexTxtParser(fRead(file)).lines
        users == {i \in 1..Len(lines) : lines[i].Identity # server}
    IN [total |-> Cardinality(users),
        valid |-> Cardinality({i \in users : lines[i].Flag = <<"V">>}),
        revoked |-> Cardinality({i \in users : lines[i].Flag = <<"R">>}),
        expired |-> Cardinality({i \in users : lines[i].Flag = <<"E">>}),
        connected |-> Cardinality({i \in users :
                                     isUserConnected(lines[i].Identity, connectedUsers)})]

UsernameChars ==
    {"a", "b", "c", "d", "e", "f", "g", "h", "i", "j", "k", "l", "m", "n", "o", "p", "q",
     "r", "s", "t", "u", "v", "w", "x", "y", "z", "A", "B", "C", "D", "E", "F", "G", "H",
     "I", "J", "K", "L", "M", "N", "O", "P", "Q", "R", "S", "T", "U", "V", "W", "X", "Y",
     "Z", "_", ".", "-"} \cup {Digits[i] : i \in 1..10}

\* validateUsername: usernameRegexp, ^([a-zA-Z0-9_.-])+$
validateUsername(username) ==
    Len(username) > 0 /\ \A i \in 1..Len(username) : username[i] \in UsernameChars

checkUserExistValidOnly(username, file) ==
    LET lines == indexTxtParser(fRead(file)).lines IN
    \E i \in 1..Len(lines) :
      lines[i].DistinguishedName = <<"/CN", "=">> \o username /\ lines[i].Flag = <<"V">>

\* checkUserExist
checkUserExist(username, file) ==
    LET lines == indexTxtParser(fRead(file)).lines IN
    \E i \in 1..Len(lines) : lines[i].DistinguishedName = <<"/CN", "=">> \o username

Serials == <<"01", "02", "03", "04", "05", "06">>

\* easyrsa build-client-full: the PKI tool appends a Valid line
easyrsaBuildClient(file, username) ==
    LET n == Len(indexTxtParser(fRead(file)).lines) IN
    File(fRead(file) \o VLine("270101000000Z", Serials[n + 1], "unknown", username))

\* easyrsa revoke: the PKI tool marks the Valid line of the name Revoked
easyrsaRevoke(file, username) ==
    LET lines == indexTxtParser(fRead(file)).lines
        hit(i) == lines[i].DistinguishedName = <<"/CN", "=">> \o username
                    /\ lines[i].Flag = <<"V">>
    IN File(renderIndexTxt(
              [i \in 1..Len(lines) |->
                 IF hit(i) THEN [lines[i] EXCEPT !.Flag = <<"R">>,
                                                 !.RevocationDate = <<"240101000000Z">>]
                 ELSE lines[i]]))

userCreateUnchecked(username, file) ==
    IF ~validateUsername(username)
    THEN [ok |-> FALSE, msg |-> "Username incorrect", file |-> file, listed |-> FALSE]
    ELSE [ok |-> TRUE, msg |-> "User created", file |-> easyrsaBuildClient(file, username),
          listed |-> TRUE]

\* userCreate: the answer and the registry it leaves
userCreate(username, file) ==
    IF ~validateUsername(username)
    THEN [ok |-> FALSE, msg |-> "Username incorrect", file |-> file, listed |-> FALSE]
    ELSE IF checkUserExist(username, file)
    THEN [ok |-> FALSE, msg |-> "User already exists", file |-> file, listed |-> FALSE]
    ELSE [ok |-> TRUE, msg |-> "User created", file |-> easyrsaBuildClient(file, username),
          listed |-> TRUE]

\* userRevoke
userRevoke(username, file) ==
    IF checkUserExist(username, file)
    THEN [msg |-> "easyrsa output", file |-> easyrsaRevoke(file, username), listed |-> TRUE]
    ELSE [msg |-> "User not found", file |-> file, listed |-> FALSE]

unrevokeEveryLine(usersFromIndexTxt, username) ==
    [i \in 1..Len(usersFromIndexTxt) |->
       IF usersFromIndexTxt[i].Flag = <<"R">>
       THEN [usersFromIndexTxt[i] EXCEPT !.Flag = <<"V">>, !.RevocationDate = <<>>]
       ELSE usersFromIndexTxt[i]]

\* lines 743-766: the first Revoked line of the name becomes Valid
unrevokeLines(usersFromIndexTxt, username) ==
    LET hit(i) == /\ usersFromIndexTxt[i].DistinguishedName = <<"/CN", "=">> \o username
                  /\ usersFromIndexTxt[i].Flag = <<"R">>
    IN [i \in 1..Len(usersFromIndexTxt) |->
          IF hit(i) /\ \A j \in 1..(i - 1) : ~hit(j)
          THEN [usersFromIndexTxt[i] EXCEPT !.Flag = <<"V">>, !.RevocationDate = <<>>]
          ELSE usersFromIndexTxt[i]]

\* userUnrevoke: the registry is rewritten from the parsed records, line 767
userUnrevoke(username, file) ==
    IF checkUserExist(username, file)
    THEN [msg |-> "successfully unrevoked",
          file |-> File(renderIndexTxt(
                     unrevokeLines(indexTxtParser(fRead(file)).lines, username))),
          listed |-> TRUE]
    ELSE [msg |-> "not found", file |-> file, listed |-> FALSE]

-----------------------------------------------------------------------------
(* The HTTP handlers of a node *)

StatusOK == 200

StatusForbidden == 403

StatusUnprocessableEntity == 422

StatusLocked == 423

statusError == "{\"status\":\"error\"}"

Reply(status, body, file) == [status |-> status, body |-> body, file |-> file]

\* what a request found when it arrived
Request(op, req) ==
    [op |-> op, req |-> req,
     before |-> [indexTxt |-> indexTxt, ccdDir |-> ccdDir, clients |-> clients,
                 certsArchive |-> certsArchive, ccdArchive |-> ccdArchive]]

apiFrame == <<nodeVars, now, lastSyncTime, lastSuccessfulSyncTime, pc, syncLocals, arg, ret>>

\* http.Error(w, `{"status":"error"}`, code) and return: nothing else changes
reject(op, req, code) ==
    /\ resp' = Reply(code, statusError, NoArchive)
    /\ hist' = Request(op, req)
    /\ UNCHANGED <<apiFrame, indexTxt, ccdDir, clients, activeClients, certsArchive,
                   ccdArchive>>

userCreateServe(username) ==
    LET r == userCreate(username, indexTxt) IN
    /\ indexTxt' = r.file
    /\ clients' = IF r.listed THEN usersList(r.file, activeClients) ELSE clients
    /\ resp' = Reply(IF r.ok THEN StatusOK ELSE StatusUnprocessableEntity, r.msg, NoArchive)
    /\ hist' = Request("create", username)
    /\ UNCHANGED <<apiFrame, ccdDir, activeClients, certsArchive, ccdArchive>>

\* userCreateHandler
userCreateHandler(username) ==
    IF role = "slave" THEN reject("create", username, StatusLocked)
    ELSE userCreateServe(username)

userRevokeServe(username) ==
    LET r == userRevoke(username, indexTxt) IN
    /\ indexTxt' = r.file
    /\ clients' = IF r.listed THEN usersList(r.file, activeClients) ELSE clients
    /\ resp' = Reply(StatusOK, r.msg, NoArchive)
    /\ hist' = Request("revoke", username)
    /\ UNCHANGED <<apiFrame, ccdDir, activeClients, certsArchive, ccdArchive>>

\* userRevokeHandler
userRevokeHandler(username) ==
    IF role = "slave" THEN reject("revoke", username, StatusLocked)
    ELSE userRevokeServe(username)

userUnrevokeServe(username) ==
    LET r == userUnrevoke(username, indexTxt) IN
    /\ indexTxt' = r.file
    /\ clients' = IF r.listed THEN usersList(r.file, activeClients) ELSE clients
    /\ resp' = Reply(StatusOK, r.msg, NoArchive)
    /\ hist' = Request("unrevoke", username)
    /\ UNCHANGED <<apiFrame, ccdDir, activeClients, certsArchive, ccdArchive>>

\* userUnrevokeHandler
userUnrevokeHandler(username) ==
    IF role = "slave" THEN reject("unrevoke", username, StatusLocked)
    ELSE userUnrevokeServe(username)

userApplyCcdServe(ccd) ==
    LET r == modifyCcd(ccd, ccdDir, openvpnNetwork) IN
    /\ ccdDir' = r.dir
    /\ resp' = Reply(IF r.ok THEN StatusOK ELSE StatusUnprocessableEntity, r.msg, NoArchive)
    /\ hist' = Request("apply", ccd)
    /\ UNCHANGED <<apiFrame, indexTxt, clients, activeClients, certsArchive, ccdArchive>>

userApplyCcdUnlocked(ccd) == userApplyCcdServe(ccd)

\* userApplyCcdHandler
userApplyCcdHandler(ccd) ==
    IF role = "slave" THEN reject("apply", ccd, StatusLocked)
    ELSE userApplyCcdServe(ccd)

downloadStatusTokenFirst(nodeRole, token, syncToken) ==
    IF token # syncToken THEN StatusForbidden
    ELSE IF nodeRole = "slave" THEN StatusLocked
    ELSE StatusOK

\* lines 304-314 and 322-332: the role is looked at first, then the token
downloadStatus(nodeRole, token, syncToken) ==
    IF nodeRole = "slave" THEN StatusLocked
    ELSE IF token # syncToken THEN StatusForbidden
    ELSE StatusOK

\* archiveCerts: tar of the pki directory into certsArchivePath
archiveCerts(file) == [exists |-> TRUE, complete |-> TRUE, data |-> fRead(file)]

\* archiveCcd: tar of the ccd directory into ccdArchivePath
archiveCcd(dir) == [exists |-> TRUE, complete |-> TRUE, data |-> dir]

\* downloadCertsHandler
downloadCertsHandler(token) ==
    LET code == downloadStatus(role, token, masterSyncToken) IN
    IF code # StatusOK THEN reject("downloadCerts", token, code)
    ELSE /\ certsArchive' = archiveCerts(indexTxt)
         /\ resp' = Reply(StatusOK, certsArchiveFileName, certsArchive')
         /\ hist' = Request("downloadCerts", token)
         /\ UNCHANGED <<apiFrame, indexTxt, ccdDir, clients, activeClients, ccdArchive>>

\* downloadCddHandler
downloadCddHandler(token) ==
    LET code == downloadStatus(role, token, masterSyncToken) IN
    IF code # StatusOK THEN reject("downloadCcd", token, code)
    ELSE /\ ccdArchive' = archiveCcd(ccdDir)
         /\ resp' = Reply(StatusOK, ccdArchiveFileName, ccdArchive')
         /\ hist' = Request("downloadCcd", token)
         /\ UNCHANGED <<apiFrame, indexTxt, ccdDir, clients, activeClients, certsArchive>>

\* mgmtGetActiveClients: no session when the socket cannot be dialled, else
\* the parsed reply to "status"
mgmtGetActiveClients(reachable, text) ==
    IF reachable THEN mgmtConnectedUsersParser(text).u ELSE <<>>

\* setState, run by updateState every 28 seconds
setState ==
    /\ \E reachable \in BOOLEAN, rows \in SeqsUpTo(ApiClientRows, 1) :
         /\ activeClients' = mgmtGetActiveClients(reachable, statusText(rows, <<>>))
         /\ clients' = usersList(indexTxt, activeClients')
    /\ hist' = Request("setState", <<>>)
    /\ UNCHANGED <<apiFrame, indexTxt, ccdDir, certsArchive, ccdArchive, resp>>


\* the flag default of ovpn.network, line 44
net172 == IPText(<<172, 16, 100, 0>>) \o <<"/">> \o NatText(24)

net10 == IPText(<<10, 0, 0, 0>>) \o <<"/">> \o NatText(24)

ApiUsers == {alice, bob}

ApiNames == {alice, bob, <<"b", Sp, "b">>}

ApiIndexTxts ==
    { File(VLine("250101000000Z", "01", "unknown", server)),
      File(VLine("250101000000Z", "01", "unknown", server)
             \o VLine("270101000000Z", "02", "unknown", alice)) }

ApiCcds ==
    [User : ApiUsers, ClientAddress : {dynamic, IPText(<<172, 16, 100, 50>>)},
     CustomRoutes : {<<>>}]

Tokens == {"justasimpleword", "wrong"}

\* main, lines 342-352: the node after its first setState
ApiInit ==
    /\ role \in {"master", "slave"}
    /\ masterSyncToken = "justasimpleword"
    /\ openvpnNetwork = net172
    /\ now = 0
    /\ lastSyncTime = unknown
    /\ lastSuccessfulSyncTime = unknown
    /\ indexTxt \in ApiIndexTxts
    /\ activeClients = <<>>
    /\ clients = usersList(indexTxt, activeClients)
    /\ ccdDir = [u \in ApiUsers |-> NoFile]
    /\ certsArchive = NoArchive
    /\ ccdArchive = NoArchive
    /\ pc = "serve"
    /\ certsDownloadFailed = TRUE
    /\ ccdDownloadFailed = TRUE
    /\ certsDownloadRetries = 0
    /\ ccdDownloadRetries = 0
    /\ resp = Reply(0, "", NoArchive)
    /\ hist = Request("start", <<>>)
    /\ arg = <<>>
    /\ ret = <<>>

Next ==
    \/ \E username \in ApiNames : userCreateHandler(username)
    \/ \E username \in ApiNames : userRevokeHandler(username)
    \/ \E username \in ApiNames : userUnrevokeHandler(username)
    \/ \E ccd \in ApiCcds : userApplyCcdHandler(ccd)
    \/ setState

Spec == ApiInit /\ [][Next]_vars

\* the download endpoints of a node whose directories change under it
DownloadNext ==
    \/ \E token \in Tokens : downloadCertsHandler(token)
    \/ \E token \in Tokens : downloadCddHandler(token)
    \/ userCreateHandler(bob)
    \/ userRevokeHandler(bob)
    \/ \E ccd \in ApiCcds : userApplyCcdHandler(ccd)

SpecDownload == ApiInit /\ [][DownloadNext]_vars


\* a request served by this step's node is the last thing that happened
Served(ops) == hist.op \in ops

ArchivesUntouched ==
    /\ certsArchive = hist.before.certsArchive
    /\ ccdArchive = hist.before.ccdArchive
    /\ resp.file = NoArchive

\* the archive of the request is a fresh snapshot of the live directory and
\* is what the response streams
ArchiveServed ==
    /\ resp.status = 200
    /\ resp.file.exists /\ resp.file.complete
    /\ hist.op = "downloadCerts" =>
         /\ certsArchive = resp.file
         /\ certsArchive.data = hist.before.indexTxt.data
         /\ ccdArchive = hist.before.ccdArchive
    /\ hist.op = "downloadCcd" =>
         /\ ccdArchive = resp.file
         /\ ccdArchive.data = hist.before.ccdDir
         /\ certsArchive = hist.before.certsArchive

\* C3 (as amended): for both download endpoints, a request served by a slave
\* is rejected with 423 whatever its token; a request to a master whose token
\* differs from the configured sync token is rejected with 403; in either
\* case no archive is regenerated and none is streamed; only a master
\* receiving the matching token regenerates the archive and serves it.
C3_RoleThenToken ==
    Served({"downloadCerts", "downloadCcd"}) =>
      IF role = "slave" THEN resp.status = 423 /\ ArchivesUntouched
      ELSE IF hist.req # masterSyncToken THEN resp.status = 403 /\ ArchivesUntouched
      ELSE ArchiveServed

\* a slave is asked with a wrong token and answers locked
C3_Witness ==
    /\ Served({"downloadCerts", "downloadCcd"})
    /\ role = "slave" /\ hist.req # masterSyncToken
    /\ resp.status = 423 /\ ArchivesUntouched

\* C3 (as stated): a request whose token differs from the sync token is
\* rejected with 403, a request served by a slave with 423, in either case
\* without an archive; only a master with the matching token serves one.
C3_Original ==
    Served({"downloadCerts", "downloadCcd"}) =>
      /\ hist.req # masterSyncToken => resp.status = 403 /\ ArchivesUntouched
      /\ role = "slave" => resp.status = 423 /\ ArchivesUntouched
      /\ (role = "master" /\ hist.req = masterSyncToken) => ArchiveServed

\* C4: on a slave every create, revoke, unrevoke and apply-policy request is
\* answered locked, and the registry, every policy file (none is created)
\* and the published client list are as the request found them.
C4_SlaveIsReadOnly ==
    (role = "slave" /\ Served({"create", "revoke", "unrevoke", "apply"})) =>
      /\ resp.status = 423
      /\ indexTxt = hist.before.indexTxt
      /\ ccdDir = hist.before.ccdDir
      /\ clients = hist.before.clients

\* a slave refused a policy for a user who has no policy file, and made none
C4_Witness ==
    /\ role = "slave" /\ Served({"apply"})
    /\ resp.status = 423
    /\ ~ccdDir[hist.req.User].exists
    /\ clients # <<>>

-----------------------------------------------------------------------------
(* Applying a policy to a directory of stored policies *)

dotted == <<"a", ".", "b">>

dashed == <<"a", "-", "b">>

CcdUsers == {bob, dotted, dashed}

goodRoute ==
    [Address |-> IPText(<<10, 1, 0, 0>>), Mask |-> IPText(<<255, 255, 0, 0>>),
     Description |-> <<"lan">>]

badRoute ==
    [Address |-> <<"1", "0", ".", "1">>, Mask |-> IPText(<<255, 255, 0, 0>>),
     Description |-> <<"lan">>]

CcdAddresses ==
    {dynamic, IPText(<<172, 16, 100, 50>>), IPText(<<172, 16, 100, 5>>),
     <<"1", "7", "2", ".", "1", "6">>}

CcdInputs ==
    [User : CcdUsers, ClientAddress : CcdAddresses,
     CustomRoutes : {<<>>, <<goodRoute>>, <<badRoute>>}]

\* the files a user can have: none, an empty one, or an applied policy
StoredFiles(u, network) ==
    {NoFile, File(<<>>)}
      \cup {File(renderCcd(e)) :
              e \in {x \in CcdInputs :
                       x.User = u /\ validateCcd(x, [v \in CcdUsers |-> NoFile], network) = ""}}

\* the directories in which no two files hold the same static address
StoredDirs(network) ==
    {dir \in [CcdUsers -> UNION {StoredFiles(u, network) : u \in CcdUsers}] :
       /\ \A u \in CcdUsers : dir[u] \in StoredFiles(u, network)
       /\ \A u, v \in CcdUsers :
            (u # v /\ parseCcd(u, dir).ClientAddress # dynamic)
              => parseCcd(u, dir).ClientAddress # parseCcd(v, dir).ClientAddress}

CcdInit ==
    /\ role = "master"
    /\ masterSyncToken = "justasimpleword"
    /\ openvpnNetwork \in {net172, net10}
    /\ now = 0
    /\ lastSyncTime = unknown
    /\ lastSuccessfulSyncTime = unknown
    /\ indexTxt = NoFile
    /\ activeClients = <<>>
    /\ clients = <<>>
    /\ ccdDir \in StoredDirs(openvpnNetwork)
    /\ certsArchive = NoArchive
    /\ ccdArchive = NoArchive
    /\ pc = "serve"
    /\ certsDownloadFailed = TRUE
    /\ ccdDownloadFailed = TRUE
    /\ certsDownloadRetries = 0
    /\ ccdDownloadRetries = 0
    /\ resp = Reply(0, "", NoArchive)
    /\ arg \in CcdInputs
    /\ hist = Request("start", arg)
    /\ ret = <<>>

\* the policy of the request body is applied, line 280
ApplyCcd == hist.op = "start" /\ userApplyCcdHandler(arg)

CcdNext == ApplyCcd

SpecCcd == CcdInit /\ [][CcdNext]_vars

\* the entry stored for user f when the request arrived
StoredBefore(f) == parseCcd(f, hist.before.ccdDir)

\* another user's file held this static address when the request arrived
ClaimedByOther ==
    \E f \in CcdUsers \ {hist.req.User} :
      hist.before.ccdDir[f].exists /\ StoredBefore(f).ClientAddress = hist.req.ClientAddress

Rejected(reason) == resp.status = 422 /\ resp.body = reason

\* C8: an entry whose static address is the one stored for a different user
\* is rejected as already assigned to another user; the user's own file is
\* not a conflict, so re-applying one's own static address is not rejected
\* for uniqueness.
C8_UniqueStaticAddress ==
    (Served({"apply"}) /\ hist.req.ClientAddress # dynamic) =>
      /\ ClaimedByOther => Rejected(errAssigned)
      /\ (StoredBefore(hist.req.User).ClientAddress = hist.req.ClientAddress
            /\ \A f \in CcdUsers \ {hist.req.User} :
                 StoredBefore(f).ClientAddress = dynamic)
           => resp.body # errAssigned

\* user a.b was given the static address stored for user a-b
C8_SharedAddress ==
    /\ Served({"apply"}) /\ resp.status = 200
    /\ hist.req.User = dotted /\ hist.req.ClientAddress = IPText(<<172, 16, 100, 50>>)
    /\ StoredBefore(dashed).ClientAddress = IPText(<<172, 16, 100, 50>>)
    /\ parseCcd(dotted, ccdDir).ClientAddress = parseCcd(dashed, ccdDir).ClientAddress

\* the first three octets of the address are those of the /24 network
InNetwork24(address) ==
    LET a == ParseIP(address).ip
        n == IF openvpnNetwork = net172 THEN <<172, 16, 100>> ELSE <<10, 0, 0>>
    IN a[1] = n[1] /\ a[2] = n[2] /\ a[3] = n[3]

\* C9: an entry without routes whose static address is a valid IP that no
\* other stored entry claims is accepted when the address is inside the
\* configured subnet and rejected when it is outside.
C9_SubnetDecides ==
    (/\ Served({"apply"})
     /\ hist.req.CustomRoutes = <<>>
     /\ hist.req.ClientAddress # dynamic
     /\ ParseIP(hist.req.ClientAddress).ok
     /\ ~ClaimedByOther)
      => IF InNetwork24(hist.req.ClientAddress) THEN resp.status = 200
         ELSE Rejected(errNotInNetwork)

\* 172.16.100.5 is refused to a user because another user holds 172.16.100.50
C9_PrefixOfAnother ==
    /\ Served({"apply"}) /\ Rejected(errAssigned)
    /\ openvpnNetwork = net172
    /\ hist.req.ClientAddress = IPText(<<172, 16, 100, 5>>)
    /\ ~ClaimedByOther

\* C10: when validation rejects the entry the user's file is as before, or
\* empty if there was none; when it accepts, the file is exactly the rendered
\* entry; every other user's file is unchanged.
C10_ApplyWritesOnlyOnAccept ==
    Served({"apply"}) =>
      /\ resp.status \in {200, 422}
      /\ \A f \in CcdUsers \ {hist.req.User} : ccdDir[f] = hist.before.ccdDir[f]
      /\ resp.status = 422 =>
           ccdDir[hist.req.User] =
             IF hist.before.ccdDir[hist.req.User].exists
             THEN hist.before.ccdDir[hist.req.User] ELSE File(<<>>)
      /\ resp.status = 200 => ccdDir[hist.req.User] = File(renderCcd(hist.req))
      /\ (resp.status = 200) = (validateCcd(hist.req, hist.before.ccdDir, openvpnNetwork) = "")

\* a rejected entry of a user without a file left an empty file behind
C10_Witness ==
    /\ Served({"apply"}) /\ resp.status = 422
    /\ ~hist.before.ccdDir[hist.req.User].exists
    /\ ccdDir[hist.req.User] = File(<<>>)
    /\ hist.req.CustomRoutes = <<badRoute>>

-----------------------------------------------------------------------------
(* The order of the checks of validateCcd *)

badMask ==
    [Address |-> IPText(<<10, 1, 0, 0>>), Mask |-> <<"2", "5", "5">>,
     Description |-> <<"lan">>]

badBoth ==
    [Address |-> <<"1", "0", ".", "1">>, Mask |-> <<"2", "5", "5">>,
     Description |-> <<"lan">>]

ValidateRoutes ==
    {<<>>, <<goodRoute>>, <<badRoute>>, <<badMask>>, <<badBoth>>, <<goodRoute, badMask>>,
     <<badMask, badRoute>>, <<goodRoute, badRoute>>}

ValidateInputs ==
    [User : {bob, dotted}, ClientAddress : CcdAddresses \cup {IPText(<<10, 0, 0, 7>>)},
     CustomRoutes : ValidateRoutes]

ValidateInit ==
    /\ role = "master"
    /\ masterSyncToken = "justasimpleword"
    /\ openvpnNetwork = net172
    /\ now = 0
    /\ lastSyncTime = unknown
    /\ lastSuccessfulSyncTime = unknown
    /\ indexTxt = NoFile
    /\ activeClients = <<>>
    /\ clients = <<>>
    /\ ccdDir \in StoredDirs(openvpnNetwork)
    /\ certsArchive = NoArchive
    /\ ccdArchive = NoArchive
    /\ pc = "serve"
    /\ certsDownloadFailed = TRUE
    /\ ccdDownloadFailed = TRUE
    /\ certsDownloadRetries = 0
    /\ ccdDownloadRetries = 0
    /\ resp = Reply(0, "", NoArchive)
    /\ arg \in ValidateInputs
    /\ hist = Request("start", arg)
    /\ ret = <<>>

\* the entry of the request body goes through modifyCcd and validateCcd
ValidateNext == ApplyCcd

SpecValidate == ValidateInit /\ [][ValidateNext]_vars

\* the routes of the request that fail a check, by position
FailingRoutes ==
    {i \in 1..Len(hist.req.CustomRoutes) :
       \/ ~ParseIP(hist.req.CustomRoutes[i].Address).ok
       \/ ~ParseIP(hist.req.CustomRoutes[i].Mask).ok}

FirstFailingRoute == CHOOSE i \in FailingRoutes : \A j \in FailingRoutes : i <= j

\* the reason the fixed order of the checks gives for the request
FirstFailingCheck ==
    IF hist.req.ClientAddress # dynamic /\ ClaimedByOther THEN errAssigned
    ELSE IF hist.req.ClientAddress # dynamic /\ ~ParseIP(hist.req.ClientAddress).ok
    THEN errNotIP
    ELSE IF hist.req.ClientAddress # dynamic /\ ~InNetwork24(hist.req.ClientAddress)
    THEN errNotInNetwork
    ELSE IF FailingRoutes = {} THEN ""
    ELSE IF ~ParseIP(hist.req.CustomRoutes[FirstFailingRoute].Address).ok
    THEN errRouteAddress
    ELSE errRouteMask

\* C19: the answer carries the reason of the first failing check in the
\* order: address claimed by another entry, address not an IP, address
\* outside the subnet, then per route in order its address, its mask; the
\* first three are skipped for "dynamic"; the entry is accepted iff no check
\* fails.
C19_FirstFailingCheckReported ==
    Served({"apply"}) =>
      IF FirstFailingCheck = "" THEN resp.status = 200
      ELSE Rejected(FirstFailingCheck)

\* "172.16" is no IP address and no stored entry claims it, but the answer
\* is "already assigned to another user": a stored address contains it
C19_NotAnIPReportedAsAssigned ==
    /\ Served({"apply"}) /\ Rejected(errAssigned)
    /\ hist.req.ClientAddress = <<"1", "7", "2", ".", "1", "6">>
    /\ ~ClaimedByOther
    /\ FirstFailingCheck = errNotIP

\* where checkStaticAddressIsFree decides as the stored entries do, the
\* answer is the reason of the first failing check
C19_HoldsWhereGrepIsRight ==
    (/\ Served({"apply"})
     /\ hist.req.ClientAddress # dynamic =>
          (ClaimedByOther = ~checkStaticAddressIsFree(hist.req.ClientAddress, hist.req.User,
                                                      hist.before.ccdDir)))
      => IF FirstFailingCheck = "" THEN resp.status = 200
         ELSE Rejected(FirstFailingCheck)

-----------------------------------------------------------------------------
(* Publishing the client list: oAdmin.clients is written by setState and by
   the mutations and read by userListHandler, with no lock and no atomic.
   A slice is a header of several words (array pointer, length); here
   clients holds that header, [array, len], and a store writes one word. *)

MaxPublications == 2

Slice(list) == [array |-> list, len |-> Len(list)]

\* the zero value of OpenvpnClient, lines 158-164
zeroClient ==
    [Identity |-> <<>>, AccountStatus |-> "", ExpirationDate |-> <<>>,
     RevocationDate |-> <<>>, ConnectionStatus |-> ""]

\* what may lie behind the end of an array: zeroed memory or an older record
BeyondArray(lists) == {zeroClient} \cup UNION {{l[i] : i \in 1..Len(l)} : l \in lists}

\* the lists a load of the header can denote: the first len elements of the
\* array, and past its end whatever memory holds
Loads(header, lists) ==
    IF header.len <= Len(header.array)
    THEN {SubSeq(header.array, 1, header.len)}
    ELSE {header.array \o pad :
            pad \in [1..(header.len - Len(header.array)) -> BeyondArray(lists)]}

PublishUsers == {bob}

PublishInit ==
    /\ role = "master"
    /\ masterSyncToken = "justasimpleword"
    /\ openvpnNetwork = net172
    /\ now = 0
    /\ lastSyncTime = unknown
    /\ lastSuccessfulSyncTime = unknown
    /\ indexTxt \in ApiIndexTxts
    /\ activeClients = <<>>
    /\ clients = Slice(<<>>)
    /\ ccdDir = [u \in ApiUsers |-> NoFile]
    /\ certsArchive = NoArchive
    /\ ccdArchive = NoArchive
    /\ pc = [writer |-> "idle", array |-> FALSE, len |-> FALSE]
    /\ certsDownloadFailed = TRUE
    /\ ccdDownloadFailed = TRUE
    /\ certsDownloadRetries = 0
    /\ ccdDownloadRetries = 0
    /\ resp = Reply(0, "", NoArchive)
    /\ hist = [computed |-> {<<>>}, publications |-> 0]
    /\ arg = <<>>
    /\ ret = [read |-> FALSE, list |-> <<>>]

publishFrame ==
    <<nodeVars, now, lastSyncTime, lastSuccessfulSyncTime, ccdDir, certsArchive,
      ccdArchive, syncLocals, resp>>

\* userCreate, lines 695-709: the PKI tool has appended the line of the name
UserCreateRun ==
    /\ \E username \in PublishUsers :
         /\ userCreate(username, indexTxt).listed
         /\ indexTxt' = userCreate(username, indexTxt).file
    /\ UNCHANGED <<publishFrame, activeClients, clients, pc, arg, ret, hist>>

\* userRevoke, lines 728-731: the PKI tool has revoked the line of the name
UserRevokeRun ==
    /\ \E username \in PublishUsers :
         /\ userRevoke(username, indexTxt).listed
         /\ indexTxt' = userRevoke(username, indexTxt).file
         /\ indexTxt' # indexTxt
    /\ UNCHANGED <<publishFrame, activeClients, clients, pc, arg, ret, hist>>

\* the right-hand side of oAdmin.clients = oAdmin.usersList() has been computed
Computed(connectedUsers) ==
    /\ pc.writer = "idle"
    /\ hist.publications < MaxPublications
    /\ activeClients' = connectedUsers
    /\ arg' = usersList(indexTxt, connectedUsers)
    /\ hist' = [computed |-> hist.computed \cup {arg'},
                publications |-> hist.publications + 1]
    /\ pc' = [writer |-> "storing", array |-> FALSE, len |-> FALSE]
    /\ UNCHANGED <<publishFrame, indexTxt, clients, ret>>

\* setState up to the store of line 416
SetStateCompute ==
    \E reachable \in BOOLEAN, rows \in SeqsUpTo(ApiClientRows, 1) :
      Computed(mgmtGetActiveClients(reachable, statusText(rows, <<>>)))

\* a mutation up to its store of line 714, 732 or 771
MutationCompute == Computed(activeClients)

\* the store of the header's array word
StoreArray ==
    /\ pc.writer = "storing" /\ ~pc.array
    /\ clients' = [clients EXCEPT !.array = arg]
    /\ pc' = IF pc.len THEN [writer |-> "idle", array |-> FALSE, len |-> FALSE]
             ELSE [pc EXCEPT !.array = TRUE]
    /\ UNCHANGED <<publishFrame, indexTxt, activeClients, arg, ret, hist>>

\* the store of the header's length word
StoreLen ==
    /\ pc.writer = "storing" /\ ~pc.len
    /\ clients' = [clients EXCEPT !.len = Len(arg)]
    /\ pc' = IF pc.array THEN [writer |-> "idle", array |-> FALSE, len |-> FALSE]
             ELSE [pc EXCEPT !.len = TRUE]
    /\ UNCHANGED <<publishFrame, indexTxt, activeClients, arg, ret, hist>>

\* userListHandler: json.Marshal(oAdmin.clients), line 201
userListHandler ==
    /\ \E list \in Loads(clients, hist.computed) : ret' = [read |-> TRUE, list |-> list]
    /\ UNCHANGED <<publishFrame, indexTxt, activeClients, clients, pc, arg, hist>>

PublishNext ==
    \/ UserCreateRun
    \/ UserRevokeRun
    \/ SetStateCompute
    \/ MutationCompute
    \/ StoreArray
    \/ StoreLen
    \/ userListHandler

SpecPublish == PublishInit /\ [][PublishNext]_vars

\* C11: whatever the interleaving of the reconciliation task, the mutations
\* and the list readers, the list a reader observes is the complete result
\* of one finished usersList computation, or the initial empty list; never
\* a part of one.
C11_ReaderSeesCompleteList == ret.read => ret.list \in hist.computed

\* a reader got the first record only of the list of two being stored, and
\* no computation ever gave that list
C11_PartialList ==
    /\ ret.read
    /\ ret.list \notin hist.computed
    /\ pc.writer = "storing"
    /\ Len(arg) = 2 /\ ret.list = SubSeq(arg, 1, 1)

-----------------------------------------------------------------------------
(* Concurrent requests on the registry: net/http serves every request in a
   goroutine of its own and updateState starts setState in another; the
   code takes no lock. A request stops between its read of index.txt and
   its write. *)

MaxReads == 2

Requests == {1, 2}

RegistryOps == {"revoke", "unrevoke"}

RegistryTexts ==
    { File(VLine("250101000000Z", "01", "unknown", server)
             \o (IF a THEN VLine("270101000000Z", "02", "unknown", alice)
                 ELSE RLine("270101000000Z", "240101000000Z", "02", "unknown", alice))
             \o (IF b THEN VLine("270101000000Z", "03", "unknown", bob)
                 ELSE RLine("270101000000Z", "240101000000Z", "03", "unknown", bob)))
      : a \in BOOLEAN, b \in BOOLEAN }

RegistryInit ==
    /\ role = "master"
    /\ masterSyncToken = "justasimpleword"
    /\ openvpnNetwork = net172
    /\ now = 0
    /\ lastSyncTime = unknown
    /\ lastSuccessfulSyncTime = unknown
    /\ indexTxt \in RegistryTexts
    /\ activeClients = <<>>
    /\ clients = usersList(indexTxt, activeClients)
    /\ ccdDir = [u \in ApiUsers |-> NoFile]
    /\ certsArchive = NoArchive
    /\ ccdArchive = NoArchive
    /\ pc = [m \in Requests |-> "idle"]
    /\ certsDownloadFailed = TRUE
    /\ ccdDownloadFailed = TRUE
    /\ certsDownloadRetries = 0
    /\ ccdDownloadRetries = 0
    /\ resp = [m \in Requests |-> ""]
    /\ hist = [reads |-> 0, overlapped |-> FALSE]
    /\ arg \in [Requests -> [op : RegistryOps, username : ApiUsers]]
    /\ ret = [m \in Requests |-> <<>>]

registryFrame ==
    <<nodeVars, now, lastSyncTime, lastSuccessfulSyncTime, ccdDir, certsArchive,
      ccdArchive, syncLocals, activeClients, arg>>

\* between its read of the registry and its write of it
InReadModifyWrite(m) == pc[m] \in {"read", "checked"}

\* userUnrevoke, lines 740-766: the registry is read and the records changed
UnrevokeRead(m) ==
    /\ pc[m] = "idle" /\ arg[m].op = "unrevoke"
    /\ IF checkUserExist(arg[m].username, indexTxt)
       THEN /\ ret' = [ret EXCEPT ![m] =
                         unrevokeLines(indexTxtParser(fRead(indexTxt)).lines,
                                       arg[m].username)]
            /\ pc' = [pc EXCEPT ![m] = "read"]
            /\ resp' = resp
       ELSE /\ pc' = [pc EXCEPT ![m] = "done"]
            /\ resp' = [resp EXCEPT ![m] = "not found"]
            /\ ret' = ret
    /\ UNCHANGED <<registryFrame, indexTxt, clients, hist>>

\* userUnrevoke, lines 767-771: the records are written back and the list
\* is published
UnrevokeWrite(m) ==
    /\ pc[m] = "read"
    /\ indexTxt' = File(renderIndexTxt(ret[m]))
    /\ clients' = usersList(indexTxt', activeClients)
    /\ pc' = [pc EXCEPT ![m] = "done"]
    /\ resp' = [resp EXCEPT ![m] = "successfully unrevoked"]
    /\ UNCHANGED <<registryFrame, ret, hist>>

\* userRevoke, line 728: the registry is read for the name
RevokeCheck(m) ==
    /\ pc[m] = "idle" /\ arg[m].op = "revoke"
    /\ IF checkUserExist(arg[m].username, indexTxt)
       THEN pc' = [pc EXCEPT ![m] = "checked"] /\ resp' = resp
       ELSE pc' = [pc EXCEPT ![m] = "done"] /\ resp' = [resp EXCEPT ![m] = "not found"]
    /\ UNCHANGED <<registryFrame, indexTxt, clients, hist, ret>>

\* userRevoke, lines 730-733: the PKI tool rewrites the registry and the
\* list is published
RevokeRun(m) ==
    /\ pc[m] = "checked"
    /\ indexTxt' = easyrsaRevoke(indexTxt, arg[m].username)
    /\ clients' = usersList(indexTxt', activeClients)
    /\ pc' = [pc EXCEPT ![m] = "done"]
    /\ resp' = [resp EXCEPT ![m] = "revoked"]
    /\ UNCHANGED <<registryFrame, hist, ret>>

\* setState started by updateState: usersList reads the registry, line 646
ReconcileRead ==
    /\ hist.reads < MaxReads
    /\ clients' = usersList(indexTxt, activeClients)
    /\ hist' = [hist EXCEPT !.reads = @ + 1,
                            !.overlapped = @ \/ \E m \in Requests : InReadModifyWrite(m)]
    /\ UNCHANGED <<registryFrame, indexTxt, pc, resp, ret>>

RegistryNext ==
    \/ \E m \in Requests : UnrevokeRead(m)
    \/ \E m \in Requests : UnrevokeWrite(m)
    \/ \E m \in Requests : RevokeCheck(m)
    \/ \E m \in Requests : RevokeRun(m)
    \/ ReconcileRead

SpecRegistry == RegistryInit /\ [][RegistryNext]_vars

\* C12: registry file access is mutually exclusive: never are two mutations
\* inside their read-modify-write of the registry at once, and the
\* reconciliation task's read of the registry never falls inside a
\* mutation's read-modify-write.
C12_RegistryAccessExclusive ==
    /\ \A m, o \in Requests : (InReadModifyWrite(m) /\ InReadModifyWrite(o)) => m = o
    /\ ~hist.overlapped

\* a revoke of alice and an unrevoke of bob both answered success, and bob
\* is still revoked or alice still valid: one write undid the other
C12_LostUpdate ==
    /\ \A m \in Requests : pc[m] = "done" /\ resp[m] # "not found"
    /\ \E m, o \in Requests :
         /\ arg[m] = [op |-> "revoke", username |-> alice]
         /\ arg[o] = [op |-> "unrevoke", username |-> bob]
    /\ \E i \in 1..Len(clients) :
         \/ clients[i].Identity = alice /\ clients[i].AccountStatus = "Active"
         \/ clients[i].Identity = bob /\ clients[i].AccountStatus = "Revoked"

-----------------------------------------------------------------------------
(* A create and an unrevoke served at once: userCreate lets the PKI tool
   append to the registry, userUnrevoke writes back the records it read. *)

LostOps == {"create", "unrevoke"}

\* the registries of the server and of alice and bob, each absent, Valid or
\* Revoked
LostTexts ==
    { File(VLine("250101000000Z", "01", "unknown", server)
             \o (IF a = "V" THEN VLine("270101000000Z", "02", "unknown", alice)
                 ELSE IF a = "R"
                 THEN RLine("270101000000Z", "240101000000Z", "02", "unknown", alice)
                 ELSE <<>>)
             \o (IF b = "V" THEN VLine("270101000000Z", "03", "unknown", bob)
                 ELSE IF b = "R"
                 THEN RLine("270101000000Z", "240101000000Z", "03", "unknown", bob)
                 ELSE <<>>))
      : a \in {"", "V", "R"}, b \in {"", "V", "R"} }

LostInit ==
    /\ role = "master"
    /\ masterSyncToken = "justasimpleword"
    /\ openvpnNetwork = net172
    /\ now = 0
    /\ lastSyncTime = unknown
    /\ lastSuccessfulSyncTime = unknown
    /\ indexTxt \in LostTexts
    /\ activeClients = <<>>
    /\ clients = usersList(indexTxt, activeClients)
    /\ ccdDir = [u \in ApiUsers |-> NoFile]
    /\ certsArchive = NoArchive
    /\ ccdArchive = NoArchive
    /\ pc = [m \in Requests |-> "idle"]
    /\ certsDownloadFailed = TRUE
    /\ ccdDownloadFailed = TRUE
    /\ certsDownloadRetries = 0
    /\ ccdDownloadRetries = 0
    /\ resp = [m \in Requests |-> ""]
    /\ hist = [first |-> indexTxt]
    /\ arg \in [Requests -> [op : LostOps, username : ApiUsers]]
    /\ ret = [m \in Requests |-> <<>>]

\* userCreate, lines 695-708: the name is validated and looked up
CreateCheck(m) ==
    /\ pc[m] = "idle" /\ arg[m].op = "create"
    /\ IF ~userCreate(arg[m].username, indexTxt).ok
       THEN /\ pc' = [pc EXCEPT ![m] = "done"]
            /\ resp' = [resp EXCEPT ![m] = userCreate(arg[m].username, indexTxt).msg]
       ELSE pc' = [pc EXCEPT ![m] = "checked"] /\ resp' = resp
    /\ UNCHANGED <<registryFrame, indexTxt, clients, hist, ret>>

\* userCreate, lines 709-715: the PKI tool appends the record and the list
\* is published
CreateRun(m) ==
    /\ pc[m] = "checked" /\ arg[m].op = "create"
    /\ indexTxt' = easyrsaBuildClient(indexTxt, arg[m].username)
    /\ clients' = usersList(indexTxt', activeClients)
    /\ pc' = [pc EXCEPT ![m] = "done"]
    /\ resp' = [resp EXCEPT ![m] = "User created"]
    /\ UNCHANGED <<registryFrame, hist, ret>>

LostNext ==
    \/ \E m \in Requests : CreateCheck(m)
    \/ \E m \in Requests : CreateRun(m)
    \/ \E m \in Requests : UnrevokeRead(m)
    \/ \E m \in Requests : UnrevokeWrite(m)

SpecLost == LostInit /\ [][LostNext]_vars

\* the registry holds a record of the name with this flag
Holds(file, username, flag) ==
    LET lines == indexTxtParser(fRead(file)).lines IN
    \E i \in 1..Len(lines) : lines[i].Identity = username /\ lines[i].Flag = <<flag>>

Absent(file, username) == ~Holds(file, username, "V") /\ ~Holds(file, username, "R")

\* request m creates alice, request o unrevokes bob, on a registry without
\* alice where bob is Revoked, and both have been answered
CreateAndUnrevokeDone(m, o) ==
    /\ arg[m] = [op |-> "create", username |-> alice]
    /\ arg[o] = [op |-> "unrevoke", username |-> bob]
    /\ Absent(hist.first, alice) /\ Holds(hist.first, bob, "R")
    /\ pc[m] = "done" /\ pc[o] = "done"

\* C27: when a create of u1 and an unrevoke of u2 run at once on a registry
\* without u1 and with u2 Revoked, then after both have completed the
\* registry holds a Valid record of u1 and a Valid record of u2.
C27_NoMutationLost ==
    \A m, o \in Requests :
      CreateAndUnrevokeDone(m, o) =>
        Holds(indexTxt, alice, "V") /\ Holds(indexTxt, bob, "V")

\* both were answered success and the registry has no record of alice: the
\* rewrite of the unrevoke dropped the line the PKI tool had appended
C27_CreatedRecordDropped ==
    \E m, o \in Requests :
      /\ CreateAndUnrevokeDone(m, o)
      /\ resp[m] = "User created" /\ resp[o] = "successfully unrevoked"
      /\ Absent(indexTxt, alice) /\ Holds(indexTxt, bob, "V")
      /\ \A i \in 1..Len(clients) : clients[i].Identity # alice

-----------------------------------------------------------------------------
(* A reconciliation cycle: setState with the list and the gauges of usersList *)

RefreshLines ==
    [flag : {"V", "R"}, exp : {"250101000000Z"}, rev : {"240101000000Z"},
     serial : {"01"}, file : {"unknown"}, name : DistinguishedNames, sep : {Tab}]

RefreshRows ==
    [cn : {alice, bob}, real : {<<"10.0.0.5:1194">>}, recv : {<<"100">>},
     sent : {<<"200">>}, since : {<<"Mon Jan 2 15:04:05 2024">>}]

RefreshInit ==
    /\ role = "master"
    /\ masterSyncToken = "justasimpleword"
    /\ openvpnNetwork = net172
    /\ now = 0
    /\ lastSyncTime = unknown
    /\ lastSuccessfulSyncTime = unknown
    /\ arg \in {[from |-> ls] : ls \in SeqsUpTo(RefreshLines, MaxRegistryLines)}
    /\ indexTxt = File(registryText(arg.from))
    /\ activeClients = <<>>
    /\ clients = <<>>
    /\ ccdDir = [u \in ApiUsers |-> NoFile]
    /\ certsArchive = NoArchive
    /\ ccdArchive = NoArchive
    /\ pc = "start"
    /\ certsDownloadFailed = TRUE
    /\ ccdDownloadFailed = TRUE
    /\ certsDownloadRetries = 0
    /\ ccdDownloadRetries = 0
    /\ resp = Reply(0, "", NoArchive)
    /\ hist = <<>>
    /\ ret = [total |-> 0, valid |-> 0, revoked |-> 0, expired |-> 0, connected |-> 0]

\* setState, lines 415-416, with the gauges usersList sets
Refresh ==
    /\ \E reachable \in BOOLEAN, rows \in SeqsUpTo(RefreshRows, MaxClientRows) :
         activeClients' = mgmtGetActiveClients(reachable, statusText(rows, <<>>))
    /\ clients' = usersList(indexTxt, activeClients')
    /\ ret' = usersGauges(indexTxt, activeClients')
    /\ pc' = "published"
    /\ UNCHANGED <<nodeVars, now, lastSyncTime, lastSuccessfulSyncTime, indexTxt, ccdDir,
                   certsArchive, ccdArchive, syncLocals, resp, hist, arg>>

RefreshNext == Refresh

SpecRefresh == RefreshInit /\ [][RefreshNext]_vars

\* the registry lines that are not the server's, in registry order
RECURSIVE UserLines(_)
UserLines(ls) ==
    IF ls = <<>> THEN <<>>
    ELSE (IF Head(ls).name.identity # server THEN <<Head(ls)>> ELSE <<>>)
           \o UserLines(Tail(ls))

\* C13: a list of usersList has exactly one ClientView per registry record
\* whose identity is not "server", in registry order, and none for the
\* server; the total count is the number of those records; accountStatus is
\* "Active" for a Valid record and "Revoked" for a Revoked one, and
\* revocationDate is non-empty only for Revoked records.
C13_OneViewPerUserRecord ==
    pc = "published" =>
      LET users == UserLines(arg.from) IN
      /\ Len(clients) = Len(users)
      /\ ret.total = Len(users)
      /\ \A i \in 1..Len(clients) :
           /\ clients[i].Identity = users[i].name.identity
           /\ clients[i].Identity # server
           /\ clients[i].AccountStatus = IF users[i].flag = "V" THEN "Active" ELSE "Revoked"
           /\ (clients[i].RevocationDate # <<>>) = (users[i].flag = "R")

\* a registry of the server's line and a revoked user's gave a list of one
C13_Witness ==
    /\ pc = "published"
    /\ Len(arg.from) = 2
    /\ arg.from[1].name.identity = server
    /\ arg.from[2].flag = "R" /\ arg.from[2].name.identity = alice
    /\ Len(clients) = 1 /\ ret.total = 1
    /\ clients[1].AccountStatus = "Revoked"

-----------------------------------------------------------------------------
(* Overlapping reconciliation cycles: updateState starts every setState in a
   goroutine of its own (line 428) and does not wait for the one before; with
   the control socket slow to answer, two cycles are under way at once.
   Cycle 1 is the one of the earlier tick, cycle 2 the one of the next tick. *)

Cycles == {1, 2}

CyclesInit ==
    /\ role = "master"
    /\ masterSyncToken = "justasimpleword"
    /\ openvpnNetwork = net172
    /\ now = 0
    /\ lastSyncTime = unknown
    /\ lastSuccessfulSyncTime = unknown
    /\ indexTxt \in RegistryTexts
    /\ activeClients = <<>>
    /\ clients = <<>>
    /\ ccdDir = [u \in ApiUsers |-> NoFile]
    /\ certsArchive = NoArchive
    /\ ccdArchive = NoArchive
    /\ pc = [g \in Cycles |-> "start"]
    /\ certsDownloadFailed = TRUE
    /\ ccdDownloadFailed = TRUE
    /\ certsDownloadRetries = 0
    /\ ccdDownloadRetries = 0
    /\ resp = Reply(0, "", NoArchive)
    /\ hist = [fetched |-> [g \in Cycles |-> <<>>], publisher |-> 0,
               unreachable |-> [g \in Cycles |-> FALSE]]
    /\ arg = <<>>
    /\ ret = [total |-> 0, valid |-> 0, revoked |-> 0, expired |-> 0, connected |-> 0]

cyclesFrame ==
    <<nodeVars, now, lastSyncTime, lastSuccessfulSyncTime, indexTxt, ccdDir,
      certsArchive, ccdArchive, syncLocals, resp, arg>>

\* setState, line 415: the sessions are fetched and stored
FetchSessions(g) ==
    /\ pc[g] = "start"
    /\ \E reachable \in BOOLEAN, rows \in SeqsUpTo(RefreshRows, MaxClientRows) :
         /\ activeClients' = mgmtGetActiveClients(reachable, statusText(rows, <<>>))
         /\ hist' = [hist EXCEPT !.fetched[g] = activeClients',
                                 !.unreachable[g] = ~reachable]
    /\ pc' = [pc EXCEPT ![g] = "fetched"]
    /\ UNCHANGED <<cyclesFrame, clients, ret>>

\* setState, line 416: the list is built from oAdmin.activeClients and published
PublishList(g) ==
    /\ pc[g] = "fetched"
    /\ clients' = usersList(indexTxt, activeClients)
    /\ ret' = usersGauges(indexTxt, activeClients)
    /\ hist' = [hist EXCEPT !.publisher = g]
    /\ pc' = [pc EXCEPT ![g] = "published"]
    /\ UNCHANGED <<cyclesFrame, activeClients>>

CyclesNext ==
    \/ \E g \in Cycles : FetchSessions(g)
    \/ \E g \in Cycles : PublishList(g)

SpecCycles == CyclesInit /\ [][CyclesNext]_vars

\* the sessions fetched by the cycle that published the snapshot
FetchedInCycle == hist.fetched[hist.publisher]

\* C14: in a snapshot published by a reconciliation cycle a ClientView is
\* "Connected" if and only if the session list fetched in that same cycle
\* has a SessionRecord whose commonName is the ClientView's identity, and
\* the connected count is the number of ClientViews marked "Connected".
C14_ConnectedIffSession ==
    hist.publisher # 0 =>
      /\ \A i \in 1..Len(clients) :
           (clients[i].ConnectionStatus = "Connected")
             = (\E k \in 1..Len(FetchedInCycle) :
                  FetchedInCycle[k].CommonName = clients[i].Identity)
      /\ ret.connected
           = Cardinality({i \in 1..Len(clients) : clients[i].ConnectionStatus = "Connected"})

\* cycle 1 fetched a session of alice, cycle 2 then fetched none, and the
\* snapshot cycle 1 published shows alice not connected
C14_OtherCyclesSessions ==
    /\ hist.publisher = 1
    /\ Len(hist.fetched[1]) = 1 /\ hist.fetched[1][1].CommonName = alice
    /\ activeClients = <<>>
    /\ \E i \in 1..Len(clients) :
         clients[i].Identity = alice /\ clients[i].ConnectionStatus = ""

\* as long as no other cycle has stored its sessions in between, the claim holds
C14_AloneHolds ==
    (hist.publisher # 0 /\ activeClients = FetchedInCycle) => C14_ConnectedIffSession

\* the records of the registry that are not the server's
UserRecords ==
    LET lines == indexTxtParser(fRead(indexTxt)).lines IN
    {i \in 1..Len(lines) : lines[i].Identity # server}

NobodyConnected ==
    /\ \A i \in 1..Len(clients) : clients[i].ConnectionStatus = ""
    /\ ret.connected = 0

\* C22: a cycle that could not dial the control socket still publishes a
\* snapshot: one ClientView per record of the registry that is not the
\* server's, every connectionStatus empty, the connected count 0.
C22_UnreachableSocketNobodyConnected ==
    (hist.publisher # 0 /\ hist.unreachable[hist.publisher]) =>
      /\ Len(clients) = Cardinality(UserRecords)
      /\ NobodyConnected

\* cycle 2 could not dial the socket, cycle 1 then stored a session of
\* alice, and the snapshot cycle 2 published shows alice connected
C22_ConnectedThoughUnreachable ==
    /\ hist.publisher = 2 /\ hist.unreachable[2]
    /\ ~hist.unreachable[1] /\ pc[1] = "fetched"
    /\ \E i \in 1..Len(clients) :
         clients[i].Identity = alice /\ clients[i].ConnectionStatus = "Connected"
    /\ ret.connected > 0

\* with no other cycle's sessions stored in between, the claim holds
C22_AloneHolds ==
    (hist.publisher # 0 /\ activeClients = FetchedInCycle)
      => C22_UnreachableSocketNobodyConnected

BothFinished == \A g \in Cycles : pc[g] = "published"

\* C26: when both cycles have finished, the snapshot left published is the
\* one of the cycle that started later, computed from the sessions that
\* cycle fetched, and the stored session list is that cycle's too.
C26_LaterRefreshWins ==
    BothFinished =>
      /\ hist.publisher = 2
      /\ clients = usersList(indexTxt, hist.fetched[2])
      /\ activeClients = hist.fetched[2]

\* cycle 2 fetched no session and published; cycle 1, started earlier, then
\* fetched a session of alice and published over it
C26_EarlierRefreshPublishedLast ==
    /\ BothFinished /\ hist.publisher = 1
    /\ hist.fetched[2] = <<>>
    /\ Len(hist.fetched[1]) = 1 /\ hist.fetched[1][1].CommonName = alice
    /\ clients = usersList(indexTxt, hist.fetched[1])
    /\ clients # usersList(indexTxt, hist.fetched[2])

-----------------------------------------------------------------------------
(* Concurrent policy-apply requests: each runs modifyCcd in its own
   goroutine; between validateCcd and fWrite another request may run. *)

RaceAddresses == {dynamic, IPText(<<172, 16, 100, 50>>), IPText(<<172, 16, 100, 60>>)}

RaceCcds == [User : ApiUsers, ClientAddress : RaceAddresses, CustomRoutes : {<<>>}]

\* no two users' files hold the same static address
DistinctStatic(dir) ==
    \A u, v \in DOMAIN dir :
      (u # v /\ dir[u].exists /\ dir[v].exists
         /\ parseCcd(u, dir).ClientAddress # dynamic)
        => parseCcd(u, dir).ClientAddress # parseCcd(v, dir).ClientAddress

RaceDirs ==
    {dir \in [ApiUsers -> {NoFile} \cup {File(renderCcd(e)) : e \in RaceCcds}] :
       /\ \A u \in ApiUsers : dir[u].exists => parseCcd(u, dir).User = u
       /\ \A u \in ApiUsers :
            dir[u].exists => dir[u] = File(renderCcd(parseCcd(u, dir)))
       /\ DistinctStatic(dir)}

RaceInit ==
    /\ role = "master"
    /\ masterSyncToken = "justasimpleword"
    /\ openvpnNetwork = net172
    /\ now = 0
    /\ lastSyncTime = unknown
    /\ lastSuccessfulSyncTime = unknown
    /\ indexTxt = NoFile
    /\ activeClients = <<>>
    /\ clients = <<>>
    /\ ccdDir \in RaceDirs
    /\ certsArchive = NoArchive
    /\ ccdArchive = NoArchive
    /\ pc = [m \in Requests |-> "start"]
    /\ certsDownloadFailed = TRUE
    /\ ccdDownloadFailed = TRUE
    /\ certsDownloadRetries = 0
    /\ ccdDownloadRetries = 0
    /\ resp = [m \in Requests |-> Reply(0, "", NoArchive)]
    /\ hist = <<>>
    /\ arg \in [Requests -> RaceCcds]
    /\ ret = <<>>

raceFrame ==
    <<nodeVars, now, lastSyncTime, lastSuccessfulSyncTime, indexTxt, activeClients,
      clients, certsArchive, ccdArchive, syncLocals, hist, arg, ret>>

\* modifyCcd, lines 525-529: the file is created and the entry validated
\* against the files as they are now
ApplyValidate(m) ==
    /\ pc[m] = "start"
    /\ ccdDir' = fCreate(ccdDir, arg[m].User)
    /\ LET ccdErr == validateCcd(arg[m], ccdDir', openvpnNetwork) IN
       IF ccdErr # ""
       THEN /\ pc' = [pc EXCEPT ![m] = "done"]
            /\ resp' = [resp EXCEPT ![m] = Reply(StatusUnprocessableEntity, ccdErr, NoArchive)]
       ELSE /\ pc' = [pc EXCEPT ![m] = "valid"]
            /\ resp' = resp
    /\ UNCHANGED raceFrame

\* modifyCcd, lines 531-539: the rendered entry is written
ApplyWrite(m) ==
    /\ pc[m] = "valid"
    /\ ccdDir' = [ccdDir EXCEPT ![arg[m].User] = File(renderCcd(arg[m]))]
    /\ pc' = [pc EXCEPT ![m] = "done"]
    /\ resp' = [resp EXCEPT ![m] = Reply(StatusOK, "ccd updated successfully", NoArchive)]
    /\ UNCHANGED raceFrame

RaceNext ==
    \/ \E m \in Requests : ApplyValidate(m)
    \/ \E m \in Requests : ApplyWrite(m)

SpecCcdRace == RaceInit /\ [][RaceNext]_vars

\* C15: after any interleaving of concurrent policy-apply requests on a
\* master, starting from files with pairwise distinct static addresses, no
\* two users' files hold the same static address.
C15_StaticAddressesStayDistinct == DistinctStatic(ccdDir)

\* both requests were accepted and alice and bob now hold the same address
C15_BothAccepted ==
    /\ \A m \in Requests : pc[m] = "done" /\ resp[m].status = StatusOK
    /\ arg[1].User # arg[2].User
    /\ parseCcd(alice, ccdDir).ClientAddress = IPText(<<172, 16, 100, 50>>)
    /\ parseCcd(bob, ccdDir).ClientAddress = IPText(<<172, 16, 100, 50>>)

-----------------------------------------------------------------------------
(* Creating an identity against a registry *)

CreateNames ==
    {alice, bob, server, <<>>, <<"b", Sp, "b">>, <<"a", "/", "b">>, <<"b", "=">>,
     <<"A", ".", "b", "-", "c", "_", "1">>}

\* the registries the PKI tool has written: the server's line, then users'
CreateIndexTxts ==
    {File(VLine("250101000000Z", "01", "unknown", server) \o registryText(ls)) :
       ls \in SeqsUpTo([flag : {"V", "R"}, exp : {"270101000000Z"},
                        rev : {"240101000000Z"}, serial : {"02"}, file : {"unknown"},
                        name : {[dn |-> <<"/CN", "=">> \o u, identity |-> u] :
                                  u \in {alice, bob}},
                        sep : {Tab}],
                       MaxRegistryLines)}

CreateInit ==
    /\ role = "master"
    /\ masterSyncToken = "justasimpleword"
    /\ openvpnNetwork = net172
    /\ now = 0
    /\ lastSyncTime = unknown
    /\ lastSuccessfulSyncTime = unknown
    /\ indexTxt \in CreateIndexTxts
    /\ activeClients = <<>>
    /\ clients = usersList(indexTxt, activeClients)
    /\ ccdDir = [u \in ApiUsers |-> NoFile]
    /\ certsArchive = NoArchive
    /\ ccdArchive = NoArchive
    /\ pc = "serve"
    /\ certsDownloadFailed = TRUE
    /\ ccdDownloadFailed = TRUE
    /\ certsDownloadRetries = 0
    /\ ccdDownloadRetries = 0
    /\ resp = Reply(0, "", NoArchive)
    /\ arg \in CreateNames
    /\ hist = Request("start", arg)
    /\ ret = <<>>

\* the create request of the form value username, line 217
Create == hist.op = "start" /\ userCreateHandler(arg)

CreateNext == Create

SpecCreate == CreateInit /\ [][CreateNext]_vars

\* the name does not match ^[A-Za-z0-9_.-]+$
BadIdentity(name) == name = <<>> \/ \E i \in 1..Len(name) : name[i] \notin UsernameChars

\* the registry the request found holds a record of the identity
IdentityHeld(name) ==
    LET lines == indexTxtParser(fRead(hist.before.indexTxt)).lines IN
    \E i \in 1..Len(lines) : lines[i].Identity = name

\* C16: create is rejected with a reason, the PKI tool is not run and the
\* registry and the published snapshot are unchanged, when the identity does
\* not match ^[A-Za-z0-9_.-]+$ (the empty string included) or the registry
\* already holds a record of it, Valid or Revoked.
C16_CreateRejected ==
    (Served({"create"}) /\ (BadIdentity(hist.req) \/ IdentityHeld(hist.req))) =>
      /\ resp.status = StatusUnprocessableEntity
      /\ resp.body \in {"Username incorrect", "User already exists"}
      /\ indexTxt = hist.before.indexTxt
      /\ clients = hist.before.clients

\* alice is revoked in the registry and a create of alice is refused
C16_Witness ==
    /\ Served({"create"}) /\ hist.req = alice
    /\ \E i \in 1..Len(clients) :
         clients[i].Identity = alice /\ clients[i].AccountStatus = "Revoked"
    /\ resp.body = "User already exists"
    /\ indexTxt = hist.before.indexTxt

-----------------------------------------------------------------------------
(* The certificate expiry gauges of a refresh: setState line 418 for the CA
   certificate, usersList lines 653-674 for the identities and the server *)

\* the / of Go on int64: the quotient is truncated toward zero
GoDiv(a, b) == IF a >= 0 THEN a \div b ELSE -((-a) \div b)

\* lines 653, 658, 662, 674: (expiration - apochNow) / 3600 / 24
certExpireGauge(expire, apochNow) == GoDiv(GoDiv(expire - apochNow, 3600), 24)

\* line 418: getOpvnCaCertExpireDate().Unix() - time.Now().Unix() / 3600 / 24;
\* the divisions bind tighter than the subtraction
caCertExpireGauge(expire, unixNow) == expire - GoDiv(GoDiv(unixNow, 3600), 24)

\* the epoch seconds of the refresh, half a day apart
GaugeNows == {1700000000 + k * 43200 : k \in 0..9}

\* expirations a day ago, today, tomorrow, in a year, in ten years, at
\* different seconds of the day
GaugeExpirations ==
    {1700000000 + d * 86400 + r : d \in {-1, 0, 1, 365, 3650}, r \in {0, 1, 86399}}

GaugeInit ==
    /\ role = "master"
    /\ masterSyncToken = "justasimpleword"
    /\ openvpnNetwork = net172
    /\ now \in GaugeNows
    /\ lastSyncTime = unknown
    /\ lastSuccessfulSyncTime = unknown
    /\ indexTxt = NoFile
    /\ activeClients = <<>>
    /\ clients = <<>>
    /\ ccdDir = [u \in ApiUsers |-> NoFile]
    /\ certsArchive = NoArchive
    /\ ccdArchive = NoArchive
    /\ pc = "start"
    /\ certsDownloadFailed = TRUE
    /\ ccdDownloadFailed = TRUE
    /\ certsDownloadRetries = 0
    /\ ccdDownloadRetries = 0
    /\ resp = Reply(0, "", NoArchive)
    /\ hist = <<>>
    /\ arg \in [caExpire : GaugeExpirations, serverExpire : GaugeExpirations]
    /\ arg.caExpire = arg.serverExpire
    /\ ret = [ca |-> 0, server |-> 0]

\* setState with the control socket not reachable: the list, then the gauges
GaugeRefresh ==
    /\ pc = "start"
    /\ activeClients' = mgmtGetActiveClients(FALSE, <<>>)
    /\ clients' = usersList(indexTxt, activeClients')
    /\ ret' = [ca |-> caCertExpireGauge(arg.caExpire, now),
               server |-> certExpireGauge(arg.serverExpire, now)]
    /\ pc' = "published"
    /\ UNCHANGED <<nodeVars, now, lastSyncTime, lastSuccessfulSyncTime, indexTxt, ccdDir,
                   certsArchive, ccdArchive, syncLocals, resp, hist, arg>>

GaugeNext == GaugeRefresh

SpecGauge == GaugeInit /\ [][GaugeNext]_vars

\* C25: the CA-certificate gauge a refresh sets is the whole number of days
\* from now to the CA certificate's expiration, (expiration - now) / 86400
\* on epoch seconds, the same computation as the server certificate's gauge.
C25_CaGaugeInDays ==
    pc = "published" =>
      /\ ret.ca = GoDiv(arg.caExpire - now, 86400)
      /\ ret.ca = ret.server

\* a CA certificate that expires in 365 days: the server gauge of the same
\* expiration is 365, the CA gauge is the expiration's epoch seconds less
\* the days since the epoch
C25_EpochSecondsLessDays ==
    /\ pc = "published"
    /\ now = 1700000000 /\ arg.caExpire = 1700000000 + 365 * 86400
    /\ ret.server = 365
    /\ ret.ca = arg.caExpire - 19675
    /\ ret.ca > 1000000000

\* the identities' and the server's gauges are the whole days to expiration
C25_ServerGaugeInDays ==
    pc = "published" => ret.server = GoDiv(arg.serverExpire - now, 86400)

-----------------------------------------------------------------------------
(* Mutations of the registry, one after another *)

\* the records of the registry the request found, and of the registry now
RecordsBefore == indexTxtParser(fRead(hist.before.indexTxt)).lines

RecordsNow == indexTxtParser(fRead(indexTxt)).lines

\* C21: an unrevoke served for an identity whose record is Revoked leaves
\* that record Valid with an empty revocationDate and its other fields as
\* they were; every other record keeps its field values and its place, none
\* added or dropped; for an identity whose record is Valid every record
\* keeps its field values; for an identity absent from the registry the
\* registry is not written and the answer is not found.
C21_UnrevokeFrame ==
    (Served({"unrevoke"}) /\ resp.status = StatusOK) =>
      IF \A i \in 1..Len(RecordsBefore) : RecordsBefore[i].Identity # hist.req
      THEN indexTxt = hist.before.indexTxt /\ resp.body = "not found"
      ELSE /\ Len(RecordsNow) = Len(RecordsBefore)
           /\ \A i \in 1..Len(RecordsBefore) :
                RecordsNow[i] =
                  IF RecordsBefore[i].Identity = hist.req /\ RecordsBefore[i].Flag = <<"R">>
                  THEN [RecordsBefore[i] EXCEPT !.Flag = <<"V">>, !.RevocationDate = <<>>]
                  ELSE RecordsBefore[i]
           /\ resp.body = "successfully unrevoked"

\* alice and bob were both Revoked; the unrevoke of bob left alice Revoked
\* with her revocation date, and bob Valid
C21_Witness ==
    /\ Served({"unrevoke"}) /\ hist.req = bob
    /\ Len(RecordsBefore) = 3
    /\ \A i \in 2..3 : RecordsBefore[i].Flag = <<"R">>
    /\ \E i, j \in 2..3 :
         /\ RecordsNow[i].Identity = bob /\ RecordsNow[i].Flag = <<"V">>
         /\ RecordsNow[i].RevocationDate = <<>>
         /\ RecordsNow[j].Identity = alice /\ RecordsNow[j].Flag = <<"R">>
         /\ RecordsNow[j].RevocationDate # <<>>

\* C24: after any sequence of create, revoke and unrevoke requests on a
\* registry that started with no two records of one identity, no two records
\* of the registry other than the server's share an identity.
C24_IdentitiesUnique ==
    \A i, j \in 1..Len(RecordsNow) :
      (i # j /\ RecordsNow[i].Identity # server /\ RecordsNow[j].Identity # server)
        => RecordsNow[i].Identity # RecordsNow[j].Identity

\* bob was created and revoked, and a second create of bob was refused
C24_Witness ==
    /\ Served({"create"}) /\ hist.req = bob
    /\ resp.body = "User already exists"
    /\ \E i \in 1..Len(RecordsNow) :
         RecordsNow[i].Identity = bob /\ RecordsNow[i].Flag = <<"R">>
    /\ \E i \in 1..Len(RecordsNow) : RecordsNow[i].Identity = alice

=============================================================================
